---- MODULE Spec2Model ----
(***************************************************************************)
(* Model of the Stellar network monitoring MCP server:                     *)
(*   - StellarNetworkApiClient (rate limiter, interceptors, makeRequest,   *)
(*     the ten public methods),                                            *)
(*   - the tool handlers of NodeTools / NetworkTools / OrganizationTools,  *)
(*   - the workflow handlers of WorkflowTools,                             *)
(*   - the ListTools / CallTool request handlers of the server.            *)
(***************************************************************************)
EXTENDS Integers, Sequences, FiniteSets, TLC

VARIABLES
  now,            \* Date.now(), in milliseconds since the client was built
  requestCount,   \* StellarNetworkApiClient.requestCount
  lastResetTime,  \* StellarNetworkApiClient.lastResetTime
  sentAt,         \* history: requests sent upstream at each clock tick of the last minute
  lastCall,       \* what the last call of a public client method did
  phase,          \* "idle", "running" or "done": the position of the current invocation
                  \* (of each invocation, where several are in progress)
  entry,          \* "CallTool" (through the server) or "WorkflowTools" (the handler called directly)
  name,           \* request.params.name (of each invocation, where several are in progress)
  args,           \* request.params.arguments
  responses,      \* the results of the client calls the invocation has made so far
                  \* (the calls of each invocation, where several are in progress)
  outcome,        \* what the handler did: returned a value or threw an error
  envelope,       \* what the CallTool request handler answered
  dataset,        \* what the upstream holds and answers, when it is kept unchanged
  first,          \* the first invocation that was completed, and how it ended
  node,           \* the node that the upstream returns to check_node_health
  health,         \* the HealthCheck that handleCheckNodeHealth returns for it
  given,          \* the arguments and upstream data of the last scoring operation
  result          \* what that operation returned

clientVars == <<now, requestCount, lastResetTime, sentAt, lastCall>>

toolVars == <<phase, entry, name, args, responses, outcome, envelope, dataset, first>>

scoringVars == <<node, health, given, result>>

vars == <<now, requestCount, lastResetTime, sentAt, lastCall,
          phase, entry, name, args, responses, outcome, envelope, node, health,
          given, result, dataset, first>>

(***************************************************************************)
(* Bounds of the model.                                                    *)
(***************************************************************************)
TickMs == 30000      \* the clock advances in steps of TickMs milliseconds
MaxTicks == 4        \* the clock stops after MaxTicks steps

Ticks == 0..MaxTicks

(***************************************************************************)
(* StellarNetworkApiClient                                                 *)
(***************************************************************************)
maxRequestsPerMinute == 60
WindowMs == 60000
NoStatus == 0        \* `undefined` status: the error carries no response

ApiError(message, code, status) ==
  [kind |-> "ApiError", message |-> message, code |-> code, status |-> status]

\* What axios rejects with when the upstream answers outside 2xx, or not at all.
AxiosError(message, status) ==
  [kind |-> "AxiosError", message |-> message, code |-> "", status |-> status]

NoError == [kind |-> "none", message |-> "", code |-> "", status |-> NoStatus]

\* The upstream's possible behaviours on one GET.
UpstreamOutcomes ==
  { [status |-> 200, message |-> ""],
    [status |-> 400, message |-> "Request failed with status code 400"],
    [status |-> 404, message |-> "Request failed with status code 404"],
    [status |-> 429, message |-> "Request failed with status code 429"],
    [status |-> 500, message |-> "Request failed with status code 500"],
    [status |-> 503, message |-> "Request failed with status code 503"],
    [status |-> NoStatus, message |-> "timeout of 30000ms exceeded"],
    [status |-> NoStatus, message |-> "Network Error"],
    [status |-> NoStatus, message |-> ""] }

UpstreamOk(u) == u.status >= 200 /\ u.status < 300

\* A limiter that compares with > where the code has >=.
checkRateLimit_offByOne(cnt, last, t) ==
  LET reset == t - last > WindowMs
      c1 == IF reset THEN 0 ELSE cnt
      l1 == IF reset THEN t ELSE last
  IN IF c1 > maxRequestsPerMinute
       THEN [count |-> c1, last |-> l1,
             thrown |-> ApiError("Rate limit exceeded", "RATE_LIMITED", 429)]
       ELSE [count |-> c1 + 1, last |-> l1, thrown |-> NoError]

\* A limiter that starts a new window when exactly 60 seconds have passed.
checkRateLimit_atWindow(cnt, last, t) ==
  LET reset == t - last >= WindowMs
      c1 == IF reset THEN 0 ELSE cnt
      l1 == IF reset THEN t ELSE last
  IN IF c1 >= maxRequestsPerMinute
       THEN [count |-> c1, last |-> l1,
             thrown |-> ApiError("Rate limit exceeded", "RATE_LIMITED", 429)]
       ELSE [count |-> c1 + 1, last |-> l1, thrown |-> NoError]

\* checkRateLimit: reset the counter when the window is over, throw at the
\* limit, count the request otherwise.
checkRateLimit(cnt, last, t) ==
  LET reset == t - last > WindowMs
      c1 == IF reset THEN 0 ELSE cnt
      l1 == IF reset THEN t ELSE last
  IN IF c1 >= maxRequestsPerMinute
       THEN [count |-> c1, last |-> l1,
             thrown |-> ApiError("Rate limit exceeded", "RATE_LIMITED", 429)]
       ELSE [count |-> c1 + 1, last |-> l1, thrown |-> NoError]

\* error.response?.status of the response interceptor: only an axios error
\* that got an answer has a response; an ApiError has a status field of its
\* own but no response.
responseStatus(error) ==
  IF error.kind = "AxiosError" THEN error.status ELSE NoStatus

\* A rejection handler that takes only statuses above 500 for server errors.
responseRejected_above500(error) ==
  LET status == responseStatus(error)
  IN IF status = 429
       THEN ApiError("Rate limit exceeded. Please try again later.", "RATE_LIMITED", 429)
     ELSE IF status = 404
       THEN ApiError("Resource not found", "NOT_FOUND", 404)
     ELSE IF status # NoStatus /\ status > 500
       THEN ApiError("Server error. Please try again later.", "SERVER_ERROR", status)
     ELSE ApiError(IF error.message # "" THEN error.message ELSE "Network request failed",
                   "NETWORK_ERROR", NoStatus)

\* The rejection handler of the response interceptor.
responseRejected(error) ==
  LET status == responseStatus(error)
  IN IF status = 429
       THEN ApiError("Rate limit exceeded. Please try again later.", "RATE_LIMITED", 429)
     ELSE IF status = 404
       THEN ApiError("Resource not found", "NOT_FOUND", 404)
     ELSE IF status # NoStatus /\ status >= 500
       THEN ApiError("Server error. Please try again later.", "SERVER_ERROR", status)
     ELSE ApiError(IF error.message # "" THEN error.message ELSE "Network request failed",
                   "NETWORK_ERROR", NoStatus)

\* this.client.get(endpoint): the request interceptor (checkRateLimit), the
\* HTTP GET, the response interceptor.  The interceptors are links of one
\* promise chain, so a rejection raised by the request interceptor skips the
\* GET and arrives at the rejection handler of the response interceptor.
clientGet(cnt, last, t, u) ==
  LET rl == checkRateLimit(cnt, last, t)
  IN IF rl.thrown.kind # "none"
       THEN [count |-> rl.count, last |-> rl.last, sent |-> FALSE,
             thrown |-> responseRejected(rl.thrown)]
     ELSE IF UpstreamOk(u)
       THEN [count |-> rl.count, last |-> rl.last, sent |-> TRUE, thrown |-> NoError]
     ELSE [count |-> rl.count, last |-> rl.last, sent |-> TRUE,
           thrown |-> responseRejected(AxiosError(u.message, u.status))]

\* The catch of makeRequest: every error becomes a result with success=false.
makeRequestCatch(error) ==
  IF error.kind = "ApiError"
    THEN [success |-> FALSE, error |-> error.message, rejected |-> FALSE]
    ELSE [success |-> FALSE, error |-> "An unexpected error occurred", rejected |-> FALSE]

\* makeRequest(endpoint, params)
makeRequest(cnt, last, t, u) ==
  LET g == clientGet(cnt, last, t, u)
      res == IF g.thrown.kind = "none"
               THEN [success |-> TRUE, error |-> "", rejected |-> FALSE]
               ELSE makeRequestCatch(g.thrown)
  IN [count |-> g.count, last |-> g.last, sent |-> g.sent,
      code |-> g.thrown.code, result |-> res]

(***************************************************************************)
(* encodeURIComponent, on strings of UTF-16 code units.  "a" stands for an *)
(* unreserved character, "/" for a reserved one, "hi" and "lo" for a high  *)
(* and a low surrogate.  A surrogate that is not half of a hi-lo pair      *)
(* makes encodeURIComponent throw URIError.                                *)
(***************************************************************************)
MaxUrlLen == 2
CodeUnits == {"a", "/", "hi", "lo"}
Urls == UNION { [1..n -> CodeUnits] : n \in 1..MaxUrlLen }

RECURSIVE encodeURIComponent(_)
encodeURIComponent(s) ==
  IF s = <<>> THEN [ok |-> TRUE, out |-> <<>>]
  ELSE IF Head(s) = "a"
    THEN LET r == encodeURIComponent(Tail(s))
         IN [ok |-> r.ok, out |-> <<"a">> \o r.out]
  ELSE IF Head(s) = "/"
    THEN LET r == encodeURIComponent(Tail(s))
         IN [ok |-> r.ok, out |-> <<"%", "2", "F">> \o r.out]
  ELSE IF Head(s) = "hi" /\ Len(s) >= 2 /\ s[2] = "lo"
    THEN LET r == encodeURIComponent(Tail(Tail(s)))
         IN [ok |-> r.ok, out |-> <<"%", "F", "0", "%", "9", "0", "%", "8", "0", "%", "8", "0">> \o r.out]
  ELSE [ok |-> FALSE, out |-> <<>>]

ClientMethods ==
  { "getNetworkInfo", "getAllNodes", "getNodeByPublicKey", "getNodeSnapshots",
    "getNetworkNodeSnapshots", "getAllOrganizations", "getOrganizationById",
    "getOrganizationSnapshots", "getNetworkOrganizationSnapshots",
    "getHistoryScanByUrl" }

NoUrl == <<>>

\* A public method of the client: builds the endpoint, then makeRequest.
\* getHistoryScanByUrl encodes its argument before it enters makeRequest,
\* outside makeRequest's try block.
publicMethod(m, url, cnt, last, t, u) ==
  IF m = "getHistoryScanByUrl" /\ ~encodeURIComponent(url).ok
    THEN [count |-> cnt, last |-> last, sent |-> FALSE, code |-> "",
          result |-> [success |-> FALSE, error |-> "URI malformed", rejected |-> TRUE]]
    ELSE makeRequest(cnt, last, t, u)

TickOf(t) == t \div TickMs

InitClientVars ==
  /\ now = 0
  /\ requestCount = 0
  /\ lastResetTime = 0
  /\ sentAt = [k \in Ticks |-> 0]
  /\ lastCall = [method |-> "none"]

Null == [tool |-> "none", parts |-> <<>>]

NoArgs ==
  [publicKey |-> 0, publicKeys |-> <<>>, organizationId |-> 0, activeOnly |-> "undefined",
   includeInactive |-> FALSE, reportType |-> "summary", dataTypes |-> {"undefined"},
   format |-> "json", includeTrends |-> FALSE, includeFailures |-> TRUE,
   includeHistorical |-> FALSE]

NoOutcome ==
  [st |-> "none", method |-> "", key |-> 0, used |-> 0, value |-> Null,
   message |-> <<>>, steps |-> <<>>]

NoEnvelope == [content |-> <<>>]

NoDataset == [answer |-> "any"]

NoFirst == [name |-> "none"]

NoNode == [publicKey |-> 0]

NoHealth == [status |-> "none"]

NoGiven == [op |-> "none"]

NoResult == [op |-> "none"]

\* No invocation is in progress.
InitToolVars ==
  /\ phase = "idle"
  /\ entry = "none"
  /\ name = "none"
  /\ args = NoArgs
  /\ responses = <<>>
  /\ outcome = NoOutcome
  /\ envelope = NoEnvelope
  /\ dataset = NoDataset
  /\ first = NoFirst
  /\ node = NoNode
  /\ health = NoHealth
  /\ given = NoGiven
  /\ result = NoResult

\* Time passes.  The history forgets what is older than one window.
Tick ==
  /\ now < MaxTicks * TickMs
  /\ now' = now + TickMs
  /\ sentAt' = [k \in Ticks |-> IF now' - k * TickMs > WindowMs THEN 0 ELSE sentAt[k]]
  /\ UNCHANGED <<requestCount, lastResetTime, lastCall>>
  /\ UNCHANGED toolVars
  /\ UNCHANGED scoringVars

\* One call of a public client method, with the upstream's behaviour u.
Call(m, url, u) ==
  LET r == publicMethod(m, url, requestCount, lastResetTime, now, u)
  IN /\ requestCount' = r.count
     /\ lastResetTime' = r.last
     /\ sentAt' = IF r.sent THEN [sentAt EXCEPT ![TickOf(now)] = @ + 1] ELSE sentAt
     /\ lastCall' = [method |-> m, url |-> url, upstream |-> u, sent |-> r.sent,
                     code |-> r.code, result |-> r.result,
                     countBefore |-> requestCount, lastBefore |-> lastResetTime]
     /\ UNCHANGED now
     /\ UNCHANGED toolVars
     /\ UNCHANGED scoringVars

(***************************************************************************)
(* SpecRate: the rate limiter over time.                                   *)
(***************************************************************************)
Ok200 == CHOOSE u \in UpstreamOutcomes : u.status = 200

Request == Call("getNetworkInfo", NoUrl, Ok200)

InitRate == InitClientVars /\ InitToolVars

NextRate == Tick \/ Request

SpecRate == InitRate /\ [][NextRate]_vars

RECURSIVE SumSent(_, _)
SumSent(i, j) == IF i > j THEN 0 ELSE sentAt[i] + SumSent(i + 1, j)

\* C1 (as stated): in every rolling 60-second interval at most 60 requests
\* are admitted by checkRateLimit and sent upstream.
C1_RollingLimit ==
  \A i \in Ticks : \A j \in Ticks :
    (i <= j /\ (j - i) * TickMs < WindowMs) => SumSent(i, j) <= maxRequestsPerMinute

\* C1 (amended): at most 60 requests are sent in the window that starts at
\* the counter's last reset, at most 60 are counted, and a rolling
\* 60-second interval holds at most twice the limit.
SentSinceReset ==
  SumSent(IF lastResetTime = 0 THEN 0 ELSE TickOf(lastResetTime), MaxTicks)

C1_FixedWindowLimit ==
  /\ requestCount <= maxRequestsPerMinute
  /\ (now - lastResetTime <= WindowMs) => SentSinceReset = requestCount
  /\ SentSinceReset <= maxRequestsPerMinute
  /\ \A i \in Ticks : \A j \in Ticks :
       (i <= j /\ (j - i) * TickMs < WindowMs) => SumSent(i, j) <= 2 * maxRequestsPerMinute

\* A full window followed by a reset: the limit was reached, the clock
\* moved on, and requests are admitted again.
C1_Witness ==
  /\ lastCall.method # "none"
  /\ lastResetTime > 0
  /\ requestCount = maxRequestsPerMinute
  /\ \E k \in Ticks : k * TickMs < lastResetTime /\ sentAt[k] = maxRequestsPerMinute

(***************************************************************************)
(* SpecClient: the public methods of the client, each upstream behaviour.  *)
(***************************************************************************)
\* The client has already sent all but Headroom requests of its first window.
Headroom == 2

InitClient ==
  /\ now = 0
  /\ lastResetTime = 0
  /\ requestCount = maxRequestsPerMinute - Headroom
  /\ sentAt = [k \in Ticks |-> IF k = 0 THEN requestCount ELSE 0]
  /\ lastCall = [method |-> "none"]
  /\ InitToolVars

ClientCall ==
  \E m \in ClientMethods : \E u \in UpstreamOutcomes :
    \E url \in (IF m = "getHistoryScanByUrl" THEN Urls ELSE {NoUrl}) :
      Call(m, url, u)

NextClient == ClientCall

SpecClient == InitClient /\ [][NextClient]_vars

\* The last call met the local limit: 60 requests counted, window not over.
AtLocalLimit ==
  /\ lastCall.method # "none"
  /\ ~lastCall.result.rejected
  /\ lastCall.countBefore >= maxRequestsPerMinute
  /\ now - lastCall.lastBefore <= WindowMs

\* C2: at the local limit the call fails at once with a result classified
\* as RateLimited, sends nothing upstream and leaves the counter unchanged.
C2_LocalLimitIsRateLimited ==
  AtLocalLimit =>
    /\ lastCall.result.success = FALSE
    /\ lastCall.code = "RATE_LIMITED"
    /\ lastCall.sent = FALSE
    /\ requestCount = lastCall.countBefore
    /\ lastResetTime = lastCall.lastBefore

\* C3: a public method of the client always resolves to a result with a
\* success flag (and an error message when it failed); it never rejects.
C3_AlwaysResolves ==
  lastCall.method # "none" =>
    /\ lastCall.result.rejected = FALSE
    /\ lastCall.result.success \in BOOLEAN
    /\ (~lastCall.result.success => lastCall.result.error # "")

\* C4: a failed upstream response is classified by its status: 429 is
\* RATE_LIMITED, 404 is NOT_FOUND, 500 and above is SERVER_ERROR, every
\* other failure (other status, no response, timeout) is NETWORK_ERROR.
UpstreamFailed ==
  /\ lastCall.method # "none"
  /\ lastCall.sent
  /\ ~UpstreamOk(lastCall.upstream)

C4_ClassifiedByStatus ==
  UpstreamFailed =>
    LET st == lastCall.upstream.status
    IN /\ (st = 429 => lastCall.code = "RATE_LIMITED")
       /\ (st = 404 => lastCall.code = "NOT_FOUND")
       /\ (st >= 500 => lastCall.code = "SERVER_ERROR")
       /\ (st \notin {429, 404} /\ st < 500 => lastCall.code = "NETWORK_ERROR")
       /\ lastCall.result.success = FALSE

C4_Witness ==
  /\ UpstreamFailed
  /\ lastCall.upstream.status = 500
  /\ lastCall.code = "SERVER_ERROR"
  /\ lastCall.result.error = "Server error. Please try again later."

(***************************************************************************)
(* Tool handlers.  A handler is a function of the client results it has    *)
(* received so far (rs): it asks for its next client call, returns a       *)
(* value, or throws.  `used` counts the client calls it has consumed.      *)
(* A message is the sequence of the segments it was concatenated from.     *)
(***************************************************************************)
MaxNodes == 2        \* the upstream knows at most MaxNodes nodes
MaxKeys == 2         \* compare_nodes is given at most MaxKeys public keys

\* The node with public key k, as the upstream reports it.
Node(k) == [publicKey |-> k, validating |-> (k % 3 # 0), active |-> (k % 2 = 1)]

NodeLists == { [i \in 1..n |-> Node(i)] : n \in 0..MaxNodes }

PublicKeys == 1..2

Need(method, key) ==
  [st |-> "call", method |-> method, key |-> key, used |-> 0, value |-> Null,
   message |-> <<>>, steps |-> <<>>]

\* A result that carries the number of requests the client has counted.
Return_numbered(n, tool, parts) ==
  [st |-> "return", method |-> "", key |-> 0, used |-> n,
   value |-> [tool |-> tool, parts |-> parts, request |-> requestCount],
   message |-> <<>>, steps |-> <<>>]

Return(n, tool, parts) ==
  [st |-> "return", method |-> "", key |-> 0, used |-> n,
   value |-> [tool |-> tool, parts |-> parts], message |-> <<>>, steps |-> <<>>]

Throw(n, message) ==
  [st |-> "throw", method |-> "", key |-> 0, used |-> n, value |-> Null,
   message |-> message, steps |-> <<>>]

\* response.error || fallback
ErrorOr(r, fallback) == IF r.error # "" THEN r.error ELSE fallback

\* The handlers that make one client call and throw when it fails:
\* the client method, the argument it is keyed by, the message thrown on
\* failure (response.error || fallback, or the fixed text alone), and the
\* prefix the catch block puts in front.
SingleCall(tool) ==
  CASE tool = "get_network_status" ->
         [method |-> "getNetworkInfo", keyed |-> "none", useError |-> TRUE,
          fallback |-> "Failed to fetch network information",
          prefix |-> "Failed to get network status: "]
    [] tool = "get_network_statistics" ->
         [method |-> "getNetworkInfo", keyed |-> "none", useError |-> TRUE,
          fallback |-> "Failed to fetch network information",
          prefix |-> "Failed to get network statistics: "]
    [] tool = "check_network_consensus" ->
         [method |-> "getNetworkInfo", keyed |-> "none", useError |-> TRUE,
          fallback |-> "Failed to fetch network information",
          prefix |-> "Failed to check network consensus: "]
    [] tool = "detect_network_issues" ->
         [method |-> "getNetworkInfo", keyed |-> "none", useError |-> FALSE,
          fallback |-> "Failed to fetch network data for issue detection",
          prefix |-> "Failed to detect network issues: "]
    [] tool = "check_quorum_health" ->
         [method |-> "getNetworkInfo", keyed |-> "none", useError |-> FALSE,
          fallback |-> "Failed to fetch network data for quorum analysis",
          prefix |-> "Failed to check quorum health: "]
    [] tool = "get_all_nodes" ->
         [method |-> "getAllNodes", keyed |-> "none", useError |-> TRUE,
          fallback |-> "Failed to fetch nodes",
          prefix |-> "Failed to get all nodes: "]
    [] tool = "get_node_details" ->
         [method |-> "getNodeByPublicKey", keyed |-> "publicKey", useError |-> TRUE,
          fallback |-> "Failed to fetch node details",
          prefix |-> "Failed to get node details: "]
    [] tool = "check_node_health" ->
         [method |-> "getNodeByPublicKey", keyed |-> "publicKey", useError |-> TRUE,
          fallback |-> "Failed to fetch node for health check",
          prefix |-> "Failed to check node health: "]
    [] tool = "find_failing_nodes" ->
         [method |-> "getAllNodes", keyed |-> "none", useError |-> TRUE,
          fallback |-> "Failed to fetch nodes",
          prefix |-> "Failed to find failing nodes: "]
    [] tool = "get_validator_nodes" ->
         [method |-> "getAllNodes", keyed |-> "none", useError |-> TRUE,
          fallback |-> "Failed to fetch nodes",
          prefix |-> "Failed to get validator nodes: "]
    [] tool = "get_node_snapshots" ->
         [method |-> "getNodeSnapshots", keyed |-> "publicKey", useError |-> TRUE,
          fallback |-> "Failed to fetch node snapshots",
          prefix |-> "Failed to get node snapshots: "]
    [] tool = "search_nodes" ->
         [method |-> "getAllNodes", keyed |-> "none", useError |-> TRUE,
          fallback |-> "Failed to fetch nodes",
          prefix |-> "Failed to search nodes: "]
    [] tool = "find_nodes_by_location" ->
         [method |-> "getAllNodes", keyed |-> "none", useError |-> TRUE,
          fallback |-> "Failed to fetch nodes",
          prefix |-> "Failed to find nodes by location: "]
    [] tool = "get_nodes_by_version" ->
         [method |-> "getAllNodes", keyed |-> "none", useError |-> TRUE,
          fallback |-> "Failed to fetch nodes",
          prefix |-> "Failed to get nodes by version: "]
    [] tool = "get_all_organizations" ->
         [method |-> "getAllOrganizations", keyed |-> "none", useError |-> TRUE,
          fallback |-> "Failed to fetch organizations",
          prefix |-> "Failed to get all organizations: "]
    [] tool = "get_organization_details" ->
         [method |-> "getOrganizationById", keyed |-> "organizationId", useError |-> TRUE,
          fallback |-> "Failed to fetch organization details",
          prefix |-> "Failed to get organization details: "]
    [] tool = "get_organization_nodes" ->
         [method |-> "getAllNodes", keyed |-> "none", useError |-> TRUE,
          fallback |-> "Failed to fetch nodes",
          prefix |-> "Failed to get organization nodes: "]
    [] tool = "get_organization_snapshots" ->
         [method |-> "getOrganizationSnapshots", keyed |-> "organizationId", useError |-> TRUE,
          fallback |-> "Failed to fetch organization snapshots",
          prefix |-> "Failed to get organization snapshots: "]

SingleCallTools ==
  { "get_network_status", "get_network_statistics", "check_network_consensus",
    "detect_network_issues", "check_quorum_health", "get_all_nodes",
    "get_node_details", "check_node_health", "find_failing_nodes",
    "get_validator_nodes", "get_node_snapshots", "search_nodes",
    "find_nodes_by_location", "get_nodes_by_version", "get_all_organizations",
    "get_organization_details", "get_organization_nodes",
    "get_organization_snapshots" }

KeyOf(keyed, a) ==
  IF keyed = "publicKey" THEN a.publicKey
  ELSE IF keyed = "organizationId" THEN a.organizationId
  ELSE 0

\* A single-call handler that asks again when its call failed.
handleSingle_retry(tool, a, rs) ==
  LET c == SingleCall(tool)
  IN IF rs = <<>> THEN Need(c.method, KeyOf(c.keyed, a))
     ELSE IF rs[1].success THEN Return(1, tool, <<c.method>>)
     ELSE IF Len(rs) = 1 THEN Need(c.method, KeyOf(c.keyed, a))
     ELSE IF rs[2].success THEN Return(2, tool, <<c.method>>)
     ELSE Throw(2, <<c.prefix, IF c.useError THEN ErrorOr(rs[2], c.fallback) ELSE c.fallback>>)

\* handleGetNetworkStatus, handleGetAllNodes, ...: one client call;
\* `if (!response.success) throw`, rethrown by the catch with the prefix.
handleSingle(tool, a, rs) ==
  LET c == SingleCall(tool)
  IN IF rs = <<>> THEN Need(c.method, KeyOf(c.keyed, a))
     ELSE IF ~rs[1].success
       THEN Throw(1, <<c.prefix, IF c.useError THEN ErrorOr(rs[1], c.fallback) ELSE c.fallback>>)
     ELSE Return(1, tool, <<c.method>>)

IsValidating(n) == n.validating
IsActive(n) == n.active

\* handleFindPeerConnections: one call; a publicKey that is not among the
\* (active, unless includeInactive) nodes throws 'Node not found'.
handleFindPeerConnections(a, rs) ==
  IF rs = <<>> THEN Need("getAllNodes", 0)
  ELSE IF ~rs[1].success
    THEN Throw(1, <<"Failed to find peer connections: ", ErrorOr(rs[1], "Failed to fetch nodes")>>)
  ELSE LET nodes == IF a.includeInactive THEN rs[1].nodes ELSE SelectSeq(rs[1].nodes, IsActive)
       IN IF a.publicKey # 0 /\ ~(\E i \in 1..Len(nodes) : nodes[i].publicKey = a.publicKey)
            THEN Throw(1, <<"Failed to find peer connections: ", "Node not found">>)
            ELSE Return(1, "find_peer_connections", <<"getAllNodes">>)

\* handleAnalyzeOrganizationReliability: two calls issued together
\* (Promise.all), both needed.
handleAnalyzeOrganizationReliability(a, rs) ==
  IF Len(rs) = 0 THEN Need("getOrganizationById", a.organizationId)
  ELSE IF Len(rs) = 1 THEN Need("getAllNodes", 0)
  ELSE IF ~rs[1].success
    THEN Throw(2, <<"Failed to analyze organization reliability: ",
                    ErrorOr(rs[1], "Failed to fetch organization")>>)
  ELSE IF ~rs[2].success
    THEN Throw(2, <<"Failed to analyze organization reliability: ",
                    ErrorOr(rs[2], "Failed to fetch nodes")>>)
  ELSE Return(2, "analyze_organization_reliability", <<"getOrganizationById", "getAllNodes">>)

\* A handler that leaves the trends out when the snapshots call has failed.
handleGetPerformanceMetrics_partial(a, rs) ==
  IF a.publicKey = 0
    THEN Throw(0, <<"Failed to get performance metrics: ",
                    "this.client.getNetworkData is not a function">>)
  ELSE IF Len(rs) = 0 THEN Need("getNodeByPublicKey", a.publicKey)
  ELSE IF Len(rs) = 1 THEN Need("getNodeSnapshots", a.publicKey)
  ELSE IF ~rs[1].success
    THEN Throw(2, <<"Failed to get performance metrics: ", "Failed to fetch node data for metrics">>)
  ELSE Return(2, "get_performance_metrics",
              <<"nodeMetrics"
                , IF rs[2].success THEN "historicalTrends" ELSE "historicalTrends: null"
                , "benchmarks: Failed to calculate benchmarks">>)

\* handleGetPerformanceMetrics.  With a publicKey: node and snapshots, both
\* needed; the benchmarks come from getNetworkBenchmarks, whose call of
\* this.client.getNetworkData (no method of the client) throws TypeError
\* into its own catch and yields an error entry.  Without a publicKey the
\* same missing method throws into the handler's catch.
handleGetPerformanceMetrics(a, rs) ==
  IF a.publicKey = 0
    THEN Throw(0, <<"Failed to get performance metrics: ",
                    "this.client.getNetworkData is not a function">>)
  ELSE IF Len(rs) = 0 THEN Need("getNodeByPublicKey", a.publicKey)
  ELSE IF Len(rs) = 1 THEN Need("getNodeSnapshots", a.publicKey)
  ELSE IF ~rs[1].success \/ ~rs[2].success
    THEN Throw(2, <<"Failed to get performance metrics: ", "Failed to fetch node data for metrics">>)
  ELSE Return(2, "get_performance_metrics",
              <<"nodeMetrics", "historicalTrends", "benchmarks: Failed to calculate benchmarks">>)

\* A comparison that is content with one public key.
handleCompareNodes_oneKey(a, rs) ==
  LET keys == a.publicKeys
      n == Len(rs) + 1
  IN IF Len(keys) < 1
       THEN Throw(0, <<"Failed to compare nodes: ", "At least 2 nodes are required for comparison">>)
     ELSE IF Len(rs) < 2 * Len(keys)
       THEN Need(IF n % 2 = 1 THEN "getNodeByPublicKey" ELSE "getNodeSnapshots",
                 keys[(n + 1) \div 2])
     ELSE Return(2 * Len(keys), "compare_nodes",
                 [i \in 1..Len(keys) |->
                    IF ~rs[2 * i - 1].success THEN "error: Node not found or unavailable"
                    ELSE IF ~rs[2 * i].success THEN "node, no snapshots"
                    ELSE "node, snapshots"])

\* handleCompareNodes: node and snapshots for each key in turn; a node that
\* cannot be fetched becomes an error entry of the comparison.
handleCompareNodes(a, rs) ==
  LET keys == a.publicKeys
      n == Len(rs) + 1
  IN IF Len(keys) < 2
       THEN Throw(0, <<"Failed to compare nodes: ", "At least 2 nodes are required for comparison">>)
     ELSE IF Len(rs) < 2 * Len(keys)
       THEN Need(IF n % 2 = 1 THEN "getNodeByPublicKey" ELSE "getNodeSnapshots",
                 keys[(n + 1) \div 2])
     ELSE Return(2 * Len(keys), "compare_nodes",
                 [i \in 1..Len(keys) |->
                    IF ~rs[2 * i - 1].success THEN "error: Node not found or unavailable"
                    ELSE IF ~rs[2 * i].success THEN "node, no snapshots"
                    ELSE "node, snapshots"])

\* handleRankValidators: all nodes (needed), then the snapshots of each
\* validator in turn; snapshots that cannot be fetched count as none.
handleRankValidators(a, rs) ==
  IF rs = <<>> THEN Need("getAllNodes", 0)
  ELSE IF ~rs[1].success
    THEN Throw(1, <<"Failed to rank validators: ", ErrorOr(rs[1], "Failed to fetch nodes for ranking")>>)
  ELSE LET v0 == SelectSeq(rs[1].nodes, IsValidating)
           validators == IF a.activeOnly # "false" THEN SelectSeq(v0, IsActive) ELSE v0
       IN IF Len(rs) < 1 + Len(validators)
            THEN Need("getNodeSnapshots", validators[Len(rs)].publicKey)
            ELSE Return(1 + Len(validators), "rank_validators",
                        [i \in 1..Len(validators) |->
                           IF rs[1 + i].success THEN "ranked, snapshots" ELSE "ranked, no snapshots"])

\* The three calls that handleAnalyzeNetworkTrends and
\* handleGenerateNetworkReport issue together (Promise.all).
NetworkFanOut(rs) ==
  IF Len(rs) = 0 THEN Need("getNetworkInfo", 0)
  ELSE IF Len(rs) = 1 THEN Need("getNetworkNodeSnapshots", 0)
  ELSE Need("getNetworkOrganizationSnapshots", 0)

\* handleAnalyzeNetworkTrends: only the current network data is needed.
handleAnalyzeNetworkTrends(a, rs) ==
  IF Len(rs) < 3 THEN NetworkFanOut(rs)
  ELSE IF ~rs[1].success
    THEN Throw(3, <<"Failed to analyze network trends: ", "Failed to fetch current network data">>)
  ELSE Return(3, "analyze_network_trends",
              <<"current",
                IF rs[2].success THEN "node snapshots" ELSE "no node snapshots",
                IF rs[3].success THEN "organization snapshots" ELSE "no organization snapshots">>)

\* handleGenerateNetworkReport: only the network data is needed; a detailed
\* or executive report also runs handleCheckNetworkConsensus.
handleGenerateNetworkReport(a, rs) ==
  IF Len(rs) < 3 THEN NetworkFanOut(rs)
  ELSE IF ~rs[1].success
    THEN Throw(3, <<"Failed to generate network report: ", "Failed to fetch network data for report">>)
  ELSE IF a.reportType \in {"detailed", "executive"}
    THEN LET c == handleSingle("check_network_consensus", NoArgs, SubSeq(rs, 4, Len(rs)))
         IN IF c.st = "call" THEN c
            ELSE IF c.st = "throw"
              THEN Throw(4, <<"Failed to generate network report: ">> \o c.message)
            ELSE Return(4, "generate_network_report",
                        <<"overview", "consensusAnalysis",
                          IF rs[2].success THEN "trends" ELSE "trends: null">>)
  ELSE Return(3, "generate_network_report", <<"overview">>)

\* args.dataTypes || ['nodes', 'validators', 'organizations', 'statistics']
DataTypesOf(a) ==
  IF a.dataTypes = {"undefined"}
    THEN {"nodes", "validators", "organizations", "statistics"}
    ELSE a.dataTypes

\* handleExportNetworkData: nodes and organizations are exported when their
\* call succeeds and left out otherwise; the statistics come from
\* handleGetNetworkStatistics, which throws; the snapshots are fetched
\* together and replaced by [] on failure.
handleExportNetworkData(a, rs) ==
  LET dataTypes == DataTypesOf(a)
      wantNodes == "nodes" \in dataTypes \/ "validators" \in dataTypes
      wantOrgs == "organizations" \in dataTypes
      wantStats == "statistics" \in dataTypes
      wantSnaps == "snapshots" \in dataTypes
      o1 == IF wantNodes THEN 1 ELSE 0
      o2 == o1 + (IF wantOrgs THEN 1 ELSE 0)
      o3 == o2 + (IF wantStats THEN 1 ELSE 0)
      o4 == o3 + (IF wantSnaps THEN 2 ELSE 0)
  IN IF wantNodes /\ Len(rs) < o1 THEN Need("getAllNodes", 0)
     ELSE IF wantOrgs /\ Len(rs) < o2 THEN Need("getAllOrganizations", 0)
     ELSE IF wantStats /\ Len(rs) < o3 THEN Need("getNetworkInfo", 0)
     ELSE IF wantStats /\ ~rs[o3].success
       THEN Throw(o3, <<"Failed to export network data: ">>
                      \o handleSingle("get_network_statistics", NoArgs, <<rs[o3]>>).message)
     ELSE IF wantSnaps /\ Len(rs) < o3 + 1 THEN Need("getNetworkNodeSnapshots", 0)
     ELSE IF wantSnaps /\ Len(rs) < o3 + 2 THEN Need("getNetworkOrganizationSnapshots", 0)
     ELSE Return(o4, "export_network_data",
                 (IF wantNodes /\ rs[o1].success THEN <<"nodes">> ELSE <<>>)
                 \o (IF wantOrgs /\ rs[o2].success THEN <<"organizations">> ELSE <<>>)
                 \o (IF wantStats THEN <<"statistics">> ELSE <<>>)
                 \o (IF wantSnaps THEN <<"snapshots">> ELSE <<>>))

\* The handler that the server (or a workflow) runs for a tool name.
HandlerRun(tool, a, rs) ==
  CASE tool \in SingleCallTools -> handleSingle(tool, a, rs)
    [] tool = "find_peer_connections" -> handleFindPeerConnections(a, rs)
    [] tool = "analyze_organization_reliability" -> handleAnalyzeOrganizationReliability(a, rs)
    [] tool = "get_performance_metrics" -> handleGetPerformanceMetrics(a, rs)
    [] tool = "compare_nodes" -> handleCompareNodes(a, rs)
    [] tool = "rank_validators" -> handleRankValidators(a, rs)
    [] tool = "analyze_network_trends" -> handleAnalyzeNetworkTrends(a, rs)
    [] tool = "generate_network_report" -> handleGenerateNetworkReport(a, rs)
    [] tool = "export_network_data" -> handleExportNetworkData(a, rs)

(***************************************************************************)
(* WorkflowTools: each workflow awaits its steps one after the other       *)
(* inside one try block.                                                   *)
(***************************************************************************)
WorkflowNames ==
  { "investigate_network_issues", "monitor_validator_performance",
    "analyze_organization_health", "analyze_network_diversity",
    "troubleshoot_consensus_issues" }

StepOf(tool, a) == [tool |-> tool, args |-> a]

\* The steps of a workflow, with the arguments it passes to each.
WorkflowSteps(w, a) ==
  CASE w = "investigate_network_issues" ->
         << StepOf("get_network_status", NoArgs),
            StepOf("detect_network_issues", NoArgs),
            StepOf("find_failing_nodes", NoArgs) >>
         \o (IF a.includeTrends THEN <<StepOf("analyze_network_trends", NoArgs)>> ELSE <<>>)
    [] w = "monitor_validator_performance" ->
         << StepOf("get_validator_nodes", [NoArgs EXCEPT !.activeOnly = "false"]),
            StepOf("rank_validators", [NoArgs EXCEPT !.activeOnly = "false"]) >>
         \o (IF a.includeFailures THEN <<StepOf("find_failing_nodes", NoArgs)>> ELSE <<>>)
    [] w = "analyze_organization_health" ->
         << StepOf("get_organization_details", [NoArgs EXCEPT !.organizationId = a.organizationId]),
            StepOf("analyze_organization_reliability", [NoArgs EXCEPT !.organizationId = a.organizationId]),
            StepOf("get_organization_nodes",
                   [NoArgs EXCEPT !.organizationId = a.organizationId, !.activeOnly = "false"]) >>
         \o (IF a.includeHistorical
               THEN <<StepOf("get_organization_snapshots", [NoArgs EXCEPT !.organizationId = a.organizationId])>>
               ELSE <<>>)
    [] w = "analyze_network_diversity" ->
         << StepOf("get_all_nodes",
                   [NoArgs EXCEPT !.activeOnly = IF a.includeInactive THEN "false" ELSE "true"]),
            StepOf("find_peer_connections", [NoArgs EXCEPT !.includeInactive = a.includeInactive]),
            StepOf("search_nodes", NoArgs) >>
    [] w = "troubleshoot_consensus_issues" ->
         << StepOf("check_network_consensus", NoArgs),
            StepOf("check_quorum_health", NoArgs),
            StepOf("find_failing_nodes", NoArgs),
            StepOf("get_validator_nodes", [NoArgs EXCEPT !.activeOnly = "false"]) >>

WorkflowPrefix(w) ==
  CASE w = "investigate_network_issues" -> "Failed to investigate network issues: "
    [] w = "monitor_validator_performance" -> "Failed to monitor validator performance: "
    [] w = "analyze_organization_health" -> "Failed to analyze organization health: "
    [] w = "analyze_network_diversity" -> "Failed to analyze network diversity: "
    [] w = "troubleshoot_consensus_issues" -> "Failed to troubleshoot consensus issues: "

StepDone(step, r) == [tool |-> step.tool, st |-> r.st, used |-> r.used, message |-> r.message]

\* The awaits of a workflow's try block: each step runs to its end before
\* the next one starts; a step that throws ends the block.  AfterStep is
\* what follows the step at the head of `steps`, r being what that step
\* does with the client results rs.
RECURSIVE AwaitSteps(_, _, _)
RECURSIVE AfterStep(_, _, _, _)
AfterStep(steps, rs, done, r) ==
  IF r.st = "call" THEN [r EXCEPT !.steps = done]
  ELSE IF r.st = "throw"
    THEN [st |-> "throw", method |-> "", key |-> 0, used |-> r.used, value |-> Null,
          message |-> r.message, steps |-> Append(done, StepDone(Head(steps), r))]
  ELSE [AwaitSteps(Tail(steps), SubSeq(rs, r.used + 1, Len(rs)),
                   Append(done, StepDone(Head(steps), r)))
          EXCEPT !.used = @ + r.used]

AwaitSteps(steps, rs, done) ==
  IF steps = <<>>
    THEN [st |-> "return", method |-> "", key |-> 0, used |-> 0, value |-> Null,
          message |-> <<>>, steps |-> done]
    ELSE AfterStep(steps, rs, done, HandlerRun(Head(steps).tool, Head(steps).args, rs))

\* The tools of the steps that have returned.
PartsOf(done) ==
  LET returned == SelectSeq(done, LAMBDA d : d.st = "return")
  IN [i \in 1..Len(returned) |-> returned[i].tool]

\* A workflow that answers with the parts it has when a step has thrown.
WorkflowEnd_partial(w, r) ==
  IF r.st = "call" THEN r
  ELSE [r EXCEPT !.st = "return", !.message = <<>>,
                 !.value = [tool |-> w, parts |-> PartsOf(r.steps)]]

\* The end of a workflow handler, r being what its try block came to: the
\* analysis object, or the catch, which rethrows with the prefix.
WorkflowEnd(w, r) ==
  IF r.st = "call" THEN r
  ELSE IF r.st = "throw"
    THEN [r EXCEPT !.message = <<WorkflowPrefix(w)>> \o r.message]
  ELSE [r EXCEPT !.value = [tool |-> w, parts |-> PartsOf(r.steps)]]

\* handleInvestigateNetworkIssues, handleMonitorValidatorPerformance, ...
WorkflowRun(w, a, rs) == WorkflowEnd(w, AwaitSteps(WorkflowSteps(w, a), rs, <<>>))

(***************************************************************************)
(* StellarNetworkMonitoringServer: the ListTools and CallTool handlers.    *)
(***************************************************************************)
\* The tools that the ListTools handler returns.
ListTools ==
  << "get_network_status", "get_network_statistics", "check_network_consensus",
     "analyze_network_trends", "detect_network_issues", "check_quorum_health",
     "generate_network_report", "export_network_data",
     "get_all_nodes", "get_node_details", "check_node_health", "find_failing_nodes",
     "get_validator_nodes", "get_node_snapshots", "get_performance_metrics",
     "compare_nodes", "rank_validators", "search_nodes", "find_nodes_by_location",
     "get_nodes_by_version", "find_peer_connections",
     "get_all_organizations", "get_organization_details",
     "analyze_organization_reliability", "get_organization_nodes",
     "get_organization_snapshots" >>

\* The case labels of the CallTool handler's switch.
SwitchCases ==
  { "get_network_status", "get_network_statistics", "check_network_consensus",
    "analyze_network_trends", "detect_network_issues", "check_quorum_health",
    "generate_network_report", "export_network_data",
    "get_all_nodes", "get_node_details", "check_node_health", "find_failing_nodes",
    "get_validator_nodes", "get_node_snapshots", "get_performance_metrics",
    "compare_nodes", "rank_validators", "search_nodes", "find_nodes_by_location",
    "get_nodes_by_version", "find_peer_connections",
    "get_all_organizations", "get_organization_details",
    "analyze_organization_reliability", "get_organization_nodes",
    "get_organization_snapshots" }

\* new Date(t).toISOString(): the fields of the timestamp.
toISOString(t) ==
  [day |-> t \div 86400000, hour |-> (t \div 3600000) % 24, minute |-> (t \div 60000) % 60,
   second |-> (t \div 1000) % 60, millisecond |-> t % 1000]

\* Date.parse of such a timestamp.
DateParse(iso) ==
  iso.day * 86400000 + iso.hour * 3600000 + iso.minute * 60000
    + iso.second * 1000 + iso.millisecond

\* JSON.stringify(value, null, 2): a text that parses back to the value.
JSONstringify(v) == [json |-> v]

JSONparse(text) == text.json

\* A CallTool handler that answers a handler's error without the error flag.
callToolReply_noFlag(n, r, t) ==
  IF r.st = "return"
    THEN [content |-> <<[type |-> "text", text |-> JSONstringify(r.value)]>>]
    ELSE [content |-> <<[type |-> "text",
                         text |-> JSONstringify([error |-> r.message, tool |-> n,
                                                 timestamp |-> toISOString(t)])]>>]

\* The reply of the CallTool handler: the result as JSON text, or, from the
\* catch block, the error, the tool name and the time, with isError.
callToolReply(n, r, t) ==
  IF r.st = "return"
    THEN [content |-> <<[type |-> "text", text |-> JSONstringify(r.value)]>>]
    ELSE [content |-> <<[type |-> "text",
                         text |-> JSONstringify([error |-> r.message, tool |-> n,
                                                 timestamp |-> toISOString(t)])]>>,
          isError |-> TRUE]

\* What the invocation in progress does next.
Run ==
  IF entry = "CallTool" THEN HandlerRun(name, args, responses)
  ELSE WorkflowRun(name, args, responses)

\* The arguments tried for each tool.
KeyLists == UNION { [1..n -> PublicKeys] : n \in 0..MaxKeys }

ArgsFor(tool) ==
  CASE tool \in {"get_node_details", "check_node_health", "get_node_snapshots"} ->
         { [NoArgs EXCEPT !.publicKey = 1] }
    [] tool \in {"get_organization_details", "get_organization_nodes",
                 "get_organization_snapshots", "analyze_organization_reliability"} ->
         { [NoArgs EXCEPT !.organizationId = 1] }
    [] tool = "find_peer_connections" ->
         { [NoArgs EXCEPT !.publicKey = k] : k \in {0} \cup PublicKeys }
    [] tool = "get_performance_metrics" ->
         { [NoArgs EXCEPT !.publicKey = k] : k \in {0, 1} }
    [] tool = "compare_nodes" ->
         { [NoArgs EXCEPT !.publicKeys = ks] : ks \in KeyLists }
    [] tool = "rank_validators" ->
         { [NoArgs EXCEPT !.activeOnly = b] : b \in {"undefined", "false"} }
    [] tool = "generate_network_report" ->
         { [NoArgs EXCEPT !.reportType = t] : t \in {"summary", "detailed"} }
    [] tool = "export_network_data" ->
         { [NoArgs EXCEPT !.dataTypes = d] :
             d \in { {"undefined"}, {}, {"snapshots"}, {"nodes", "statistics"} } }
    [] tool = "investigate_network_issues" ->
         { [NoArgs EXCEPT !.includeTrends = b] : b \in BOOLEAN }
    [] tool = "monitor_validator_performance" ->
         { [NoArgs EXCEPT !.includeFailures = b] : b \in BOOLEAN }
    [] tool = "analyze_organization_health" ->
         { [NoArgs EXCEPT !.organizationId = 1, !.includeHistorical = b] : b \in BOOLEAN }
    [] tool = "analyze_network_diversity" ->
         { [NoArgs EXCEPT !.includeInactive = b] : b \in BOOLEAN }
    [] OTHER -> { NoArgs }

ToolNames == SwitchCases \cup WorkflowNames \cup {"no_such_tool"}

\* The behaviours of the upstream that the handlers are run against.
HandlerOutcomes ==
  { u \in UpstreamOutcomes : u.status \in {200, 404, 503}
                             \/ u.message = "timeout of 30000ms exceeded" }

\* A CallTool request arrives.  A name without a case in the switch goes
\* to the default branch, which throws into the catch block.
CallTool(n, a) ==
  /\ phase = "idle"
  /\ entry' = "CallTool"
  /\ name' = n
  /\ args' = a
  /\ responses' = <<>>
  /\ IF n \in SwitchCases
       THEN /\ phase' = "running"
            /\ UNCHANGED <<outcome, envelope>>
       ELSE /\ phase' = "done"
            /\ outcome' = Throw(0, <<"Unknown tool: ", n>>)
            /\ envelope' = callToolReply(n, Throw(0, <<"Unknown tool: ", n>>), now)
  /\ UNCHANGED <<dataset, first>>
  /\ UNCHANGED clientVars
  /\ UNCHANGED scoringVars

\* A caller invokes a workflow handler of WorkflowTools.
CallWorkflow(w, a) ==
  /\ phase = "idle"
  /\ entry' = "WorkflowTools"
  /\ name' = w
  /\ args' = a
  /\ responses' = <<>>
  /\ phase' = "running"
  /\ UNCHANGED <<outcome, envelope, dataset, first>>
  /\ UNCHANGED clientVars
  /\ UNCHANGED scoringVars

\* The invocation in progress makes its next client call.
ClientStep(u, nodes) ==
  /\ phase = "running"
  /\ \E run \in {Run} :
       /\ run.st = "call"
       /\ \E r \in {publicMethod(run.method, NoUrl, requestCount, lastResetTime, now, u)} :
            /\ requestCount' = r.count
            /\ lastResetTime' = r.last
            /\ sentAt' = IF r.sent THEN [sentAt EXCEPT ![TickOf(now)] = @ + 1] ELSE sentAt
            /\ responses' = Append(responses,
                 [method |-> run.method, key |-> run.key, success |-> r.result.success,
                  error |-> r.result.error, gets |-> IF r.sent THEN 1 ELSE 0,
                  nodes |-> IF r.result.success /\ run.method = "getAllNodes"
                              THEN nodes ELSE <<>>])
  /\ UNCHANGED <<now, lastCall, phase, entry, name, args, outcome, envelope, dataset, first>>
  /\ UNCHANGED scoringVars

\* The handler returns or throws; the CallTool handler answers.
Complete ==
  /\ phase = "running"
  /\ \E run \in {Run} :
       /\ run.st \in {"return", "throw"}
       /\ outcome' = run
       /\ envelope' = IF entry = "CallTool" THEN callToolReply(name, run, now) ELSE NoEnvelope
  /\ phase' = "done"
  /\ UNCHANGED <<entry, name, args, responses, dataset, first>>
  /\ UNCHANGED clientVars
  /\ UNCHANGED scoringVars

(***************************************************************************)
(* SpecTools: one invocation, through the server or of a workflow handler. *)
(***************************************************************************)
InitTools ==
  /\ now = 0
  /\ lastResetTime = 0
  /\ requestCount \in {0, maxRequestsPerMinute - Headroom}
  /\ sentAt = [k \in Ticks |-> 0]
  /\ lastCall = [method |-> "none"]
  /\ InitToolVars

NextTools ==
  \/ \E n \in ToolNames : \E a \in ArgsFor(n) : CallTool(n, a)
  \/ \E w \in WorkflowNames : \E a \in ArgsFor(w) : CallWorkflow(w, a)
  \/ \E u \in HandlerOutcomes : \E nodes \in NodeLists : ClientStep(u, nodes)
  \/ Complete

SpecTools == InitTools /\ [][NextTools]_vars

\* The invocation is over and came through the CallTool handler.
Dispatched == phase = "done" /\ entry = "CallTool"

ErrorFlag == "isError" \in DOMAIN envelope /\ envelope.isError = TRUE

\* C5: every invocation through the CallTool handler ends in an envelope
\* with one text content.  When the handler threw, or the name is unknown,
\* the envelope has isError = true and its text parses to the error
\* message, the tool name and a timestamp that parses back to the time of
\* the reply; otherwise the text parses to the result and there is no
\* isError field.
C5_EnvelopeAlways ==
  Dispatched =>
    /\ Len(envelope.content) = 1
    /\ envelope.content[1].type = "text"
    /\ (name \notin SwitchCases => outcome.st = "throw" /\ outcome.message = <<"Unknown tool: ", name>>)
    /\ outcome.st \in {"return", "throw"}
    /\ IF outcome.st = "throw"
         THEN /\ ErrorFlag
              /\ JSONparse(envelope.content[1].text).error = outcome.message
              /\ JSONparse(envelope.content[1].text).tool = name
              /\ DateParse(JSONparse(envelope.content[1].text).timestamp) = now
         ELSE /\ "isError" \notin DOMAIN envelope
              /\ JSONparse(envelope.content[1].text) = outcome.value

\* A handler met the client's local rate limit and the reply is an error
\* envelope that names the tool.
C5_Witness ==
  /\ Dispatched
  /\ name \in SwitchCases
  /\ Len(responses) > 0
  /\ responses[Len(responses)].gets = 0
  /\ outcome.st = "throw"
  /\ outcome.message[Len(outcome.message)] = "Rate limit exceeded"
  /\ ErrorFlag
  /\ JSONparse(envelope.content[1].text).tool = name

\* The tool of the workflow step that received the i-th client result.
RECURSIVE StepToolOf(_, _)
StepToolOf(done, i) ==
  IF done = <<>> THEN "none"
  ELSE IF i <= Head(done).used THEN Head(done).tool
  ELSE StepToolOf(Tail(done), i - Head(done).used)

\* The tool whose handler received the i-th client result.
ToolOfResponse(i) ==
  IF entry = "CallTool" THEN name ELSE StepToolOf(outcome.steps, i)

FailedResponses == { i \in 1..Len(responses) : ~responses[i].success }

\* C6 (as stated): once any client call of the invocation has failed, the
\* handler throws and the reply is an error envelope.
C6_AnyFailureIsFatal ==
  (phase = "done" /\ FailedResponses # {}) =>
    /\ outcome.st = "throw"
    /\ (entry = "CallTool" => ErrorFlag)

\* The client calls whose failure the handler of `tool` goes on after.
Tolerated(tool, method) ==
  \/ tool = "compare_nodes"
  \/ tool = "rank_validators" /\ method = "getNodeSnapshots"
  \/ /\ tool \in {"analyze_network_trends", "generate_network_report"}
     /\ method \in {"getNetworkNodeSnapshots", "getNetworkOrganizationSnapshots"}
  \/ /\ tool = "export_network_data"
     /\ method \in {"getAllNodes", "getAllOrganizations",
                    "getNetworkNodeSnapshots", "getNetworkOrganizationSnapshots"}

TolerantTools ==
  { "compare_nodes", "rank_validators", "analyze_network_trends",
    "generate_network_report", "export_network_data" }

\* C6 (amended): a failed client call ends the invocation in an error
\* (an error envelope, through the CallTool handler) unless it is one of
\* the calls that compare_nodes, rank_validators, analyze_network_trends,
\* generate_network_report and export_network_data tolerate; when such a
\* handler met tolerated failures only, it returns a result built from the
\* remaining data.
C6_FailureFatalUnlessTolerated ==
  phase = "done" =>
    /\ (\E i \in FailedResponses : ~Tolerated(ToolOfResponse(i), responses[i].method))
         => (outcome.st = "throw" /\ (entry = "CallTool" => ErrorFlag))
    /\ ( /\ entry = "CallTool"
         /\ name \in TolerantTools
         /\ FailedResponses # {}
         /\ \A i \in FailedResponses : Tolerated(name, responses[i].method)
         /\ (name = "compare_nodes" => Len(args.publicKeys) >= 2) )
         => (outcome.st = "return" /\ ~ErrorFlag)

\* export_network_data: the failure of getAllNodes was passed over, the
\* failure of the statistics call then ended the invocation in an error.
C6_Witness ==
  /\ Dispatched
  /\ name = "export_network_data"
  /\ Len(responses) = 2
  /\ responses[1].method = "getAllNodes" /\ ~responses[1].success
  /\ responses[2].method = "getNetworkInfo" /\ ~responses[2].success
  /\ outcome.st = "throw"
  /\ ErrorFlag

RECURSIVE SumUsed(_)
SumUsed(done) == IF done = <<>> THEN 0 ELSE Head(done).used + SumUsed(Tail(done))

\* C7: a workflow runs its steps in order; when a step throws, it is the
\* last step run, no client call follows it, and the workflow throws one
\* error (its prefix and the step's message) without a value; when no
\* step throws, every step has run and the result holds every part.
C7_WorkflowAllOrNothing ==
  (phase = "done" /\ entry = "WorkflowTools") =>
    LET steps == WorkflowSteps(name, args)
        done == outcome.steps
        threw == { i \in 1..Len(done) : done[i].st = "throw" }
    IN /\ Len(done) <= Len(steps)
       /\ \A i \in 1..Len(done) : done[i].tool = steps[i].tool
       /\ Len(responses) = SumUsed(done)
       /\ IF threw # {}
            THEN /\ threw = {Len(done)}
                 /\ outcome.st = "throw"
                 /\ outcome.value = Null
                 /\ outcome.message = <<WorkflowPrefix(name)>> \o done[Len(done)].message
            ELSE /\ outcome.st = "return"
                 /\ Len(done) = Len(steps)
                 /\ outcome.value.parts = [i \in 1..Len(steps) |-> steps[i].tool]

\* A workflow whose second step threw after its first had returned, with
\* steps left that were never run.
C7_Witness ==
  /\ phase = "done"
  /\ entry = "WorkflowTools"
  /\ Len(outcome.steps) = 2
  /\ Len(WorkflowSteps(name, args)) > 2
  /\ outcome.steps[1].st = "return"
  /\ outcome.steps[2].st = "throw"
  /\ outcome.st = "throw"

SameRequest(i, j) ==
  /\ responses[i].method = responses[j].method
  /\ responses[i].key = responses[j].key

RepeatedKey(i, j) ==
  /\ entry = "CallTool"
  /\ name = "compare_nodes"
  /\ (i + 1) \div 2 # (j + 1) \div 2
  /\ args.publicKeys[(i + 1) \div 2] = args.publicKeys[(j + 1) \div 2]

\* The result that the i-th call would have had on success.
Succeeded(r) == [r EXCEPT !.success = TRUE, !.error = ""]

C9_WorkflowsRegistered ==
  (Dispatched /\ name \in WorkflowNames) =>
    /\ \E i \in 1..Len(ListTools) : ListTools[i] = name
    /\ ~(outcome.st = "throw" /\ outcome.message[1] = "Unknown tool: ")

(***************************************************************************)
(* SpecHealth: handleCheckNodeHealth on each node the upstream can return. *)
(* Scores and uptimes are counted in units of 1/UptimeScale, so that       *)
(* fractional uptimes are exact.                                           *)
(***************************************************************************)
UptimeScale == 4

\* node.uptime === undefined
Undefined == -1

\* The nodes the upstream returns: each flag, a version reported or not,
\* uptime absent or between 0 and 100.
HealthNodes ==
  [active : BOOLEAN, overLoaded : BOOLEAN, validating : BOOLEAN,
   stellarCoreVersion : {"", "21.0.0"},
   uptime : {Undefined} \cup 0..(100 * UptimeScale)]

\* determineHealthStatus(score), score in units of 1/UptimeScale.
determineHealthStatus(score) ==
  IF score >= 80 * UptimeScale THEN "healthy"
  ELSE IF score >= 60 * UptimeScale THEN "warning"
  ELSE "critical"

\* Math.round(score): the integer nearest to score / UptimeScale, halves up.
MathRound(score) == (2 * score + UptimeScale) \div (2 * UptimeScale)

MathMax(x, y) == IF x >= y THEN x ELSE y

\* The health check with 20 instead of 30 taken off for a validator that
\* is offline.
handleCheckNodeHealth_lenient(n) ==
  LET lowUptime == n.uptime # Undefined /\ n.uptime < 95 * UptimeScale
      score == 100 * UptimeScale
                 - (IF ~n.active THEN 40 * UptimeScale ELSE 0)
                 - (IF n.overLoaded THEN 20 * UptimeScale ELSE 0)
                 - (IF lowUptime THEN MathMax(0, (95 * UptimeScale - n.uptime) * 2) ELSE 0)
                 - (IF n.stellarCoreVersion = "" THEN 10 * UptimeScale ELSE 0)
                 - (IF n.validating /\ ~n.active THEN 20 * UptimeScale ELSE 0)
  IN [status |-> determineHealthStatus(score), issues |-> {},
      score |-> MathMax(0, MathRound(score))]

\* The body of handleCheckNodeHealth after the node has been fetched.
handleCheckNodeHealth(n) ==
  LET lowUptime == n.uptime # Undefined /\ n.uptime < 95 * UptimeScale
      score == 100 * UptimeScale
                 - (IF ~n.active THEN 40 * UptimeScale ELSE 0)
                 - (IF n.overLoaded THEN 20 * UptimeScale ELSE 0)
                 - (IF lowUptime THEN MathMax(0, (95 * UptimeScale - n.uptime) * 2) ELSE 0)
                 - (IF n.stellarCoreVersion = "" THEN 10 * UptimeScale ELSE 0)
                 - (IF n.validating /\ ~n.active THEN 30 * UptimeScale ELSE 0)
      issues == (IF ~n.active THEN {"Node is not active"} ELSE {})
                  \cup (IF n.overLoaded THEN {"Node is overloaded"} ELSE {})
                  \cup (IF lowUptime THEN {"Low uptime"} ELSE {})
                  \cup (IF n.stellarCoreVersion = "" THEN {"Stellar Core version not reported"} ELSE {})
                  \cup (IF n.validating /\ ~n.active THEN {"Validator is offline"} ELSE {})
  IN [status |-> determineHealthStatus(score), issues |-> issues,
      score |-> MathMax(0, MathRound(score))]

\* check_node_health: the node is fetched from the upstream, which answers
\* with n or fails; the handler returns the health check or throws.
CheckNodeHealth(u, n) ==
  /\ health = NoHealth
  /\ LET r == publicMethod("getNodeByPublicKey", NoUrl, requestCount, lastResetTime, now, u)
     IN /\ requestCount' = r.count
        /\ lastResetTime' = r.last
        /\ sentAt' = IF r.sent THEN [sentAt EXCEPT ![TickOf(now)] = @ + 1] ELSE sentAt
        /\ node' = IF r.result.success THEN n ELSE NoNode
        /\ health' = IF r.result.success
                       THEN handleCheckNodeHealth(n)
                       ELSE [status |-> "thrown",
                             message |-> <<"Failed to check node health: ",
                                           ErrorOr(r.result, "Failed to fetch node for health check")>>]
  /\ UNCHANGED <<now, lastCall, given, result>>
  /\ UNCHANGED toolVars

InitHealth == InitClient

NextHealth == \E u \in HandlerOutcomes : \E n \in HealthNodes : CheckNodeHealth(u, n)

SpecHealth == InitHealth /\ [][NextHealth]_vars

\* C10: the score returned is an integer from 0 to 100, and the status
\* returned is healthy iff that score is at least 80, warning iff it is
\* at least 60 and below 80, critical iff it is below 60.
C10_StatusAgreesWithScore ==
  health.status \in {"healthy", "warning", "critical"} =>
    /\ health.score \in 0..100
    /\ (health.status = "healthy") <=> (health.score >= 80)
    /\ (health.status = "warning") <=> (health.score >= 60 /\ health.score < 80)
    /\ (health.status = "critical") <=> (health.score < 60)

\* What is taken off the score of 100 for the node fetched, in units of
\* 1/UptimeScale.
Deductions ==
  (IF ~node.active THEN 40 * UptimeScale ELSE 0)
    + (IF node.overLoaded THEN 20 * UptimeScale ELSE 0)
    + (IF node.uptime # Undefined /\ node.uptime < 95 * UptimeScale
         THEN (95 * UptimeScale - node.uptime) * 2 ELSE 0)
    + (IF node.stellarCoreVersion = "" THEN 10 * UptimeScale ELSE 0)
    + (IF node.validating /\ ~node.active THEN 30 * UptimeScale ELSE 0)

\* C17: the score is 100 minus 40 (not active), 20 (overloaded),
\* (95 - uptime) * 2 (uptime defined and below 95), 10 (no version) and
\* 30 (validating but not active), not below 0 and rounded to the nearest
\* integer; a node that is inactive, validating, not overloaded and has no
\* uptime scores 30 with a version and 20 without, with status critical.
C17_ScoreOfDeductions ==
  health.status \in {"healthy", "warning", "critical"} =>
    /\ health.score >= 0
    /\ IF 2 * (100 * UptimeScale - Deductions) + UptimeScale < 0
         THEN health.score = 0
         ELSE /\ 2 * UptimeScale * health.score
                   <= 2 * (100 * UptimeScale - Deductions) + UptimeScale
              /\ 2 * (100 * UptimeScale - Deductions) + UptimeScale
                   < 2 * UptimeScale * (health.score + 1)
    /\ (~node.active /\ node.validating /\ ~node.overLoaded /\ node.uptime = Undefined) =>
         /\ health.score = IF node.stellarCoreVersion = "" THEN 20 ELSE 30
         /\ health.status = "critical"

\* The validator that is offline and reports a version but no uptime.
C17_Witness ==
  /\ health.status = "critical"
  /\ ~node.active /\ node.validating /\ ~node.overLoaded
  /\ node.uptime = Undefined
  /\ node.stellarCoreVersion # ""
  /\ health.score = 30

(***************************************************************************)
(* Scores computed from a node and its snapshots (NodeTools).  Uptimes     *)
(* are whole percents here, averages and ratios are exact fractions, and   *)
(* Math.round(num / den) is RoundDiv(num, den).                            *)
(***************************************************************************)
\* Math.round(num / den) for den > 0: the nearest integer, halves up.
RoundDiv(num, den) == (2 * num + den) \div (2 * den)

MathMin(x, y) == IF x <= y THEN x ELSE y

\* s.uptime || 0
UptimeOr0(u) == IF u = Undefined THEN 0 ELSE u

RECURSIVE SumUptimeOr0(_)
SumUptimeOr0(snapshots) ==
  IF snapshots = <<>> THEN 0
  ELSE UptimeOr0(Head(snapshots).uptime) + SumUptimeOr0(Tail(snapshots))

\* A recent window of at most 5 snapshots.
RecentSnapshots_five(snapshots) == SubSeq(snapshots, 1, MathMin(5, Len(snapshots)))

\* snapshots.slice(0, Math.min(10, snapshots.length))
RecentSnapshots(snapshots) == SubSeq(snapshots, 1, MathMin(10, Len(snapshots)))

\* snapshots.slice(-Math.min(10, snapshots.length))
OlderSnapshots(snapshots) ==
  SubSeq(snapshots, Len(snapshots) - MathMin(10, Len(snapshots)) + 1, Len(snapshots))

\* The trend with thresholds that include 2 and -2.
calculateUptimeTrend_inclusive(snapshots) ==
  IF Len(snapshots) < 2 THEN "insufficient_data"
  ELSE LET window == MathMin(10, Len(snapshots))
           difference == SumUptimeOr0(RecentSnapshots(snapshots))
                           - SumUptimeOr0(OlderSnapshots(snapshots))
       IN IF difference >= 2 * window THEN "improving"
          ELSE IF difference <= -2 * window THEN "declining"
          ELSE "stable"

\* calculateUptimeTrend.  Both windows have the same length, so that
\* recentAvg - olderAvg > 2 compares the difference of the sums with
\* twice that length.
calculateUptimeTrend(snapshots) ==
  IF Len(snapshots) < 2 THEN "insufficient_data"
  ELSE LET window == MathMin(10, Len(snapshots))
           difference == SumUptimeOr0(RecentSnapshots(snapshots))
                           - SumUptimeOr0(OlderSnapshots(snapshots))
       IN IF difference > 2 * window THEN "improving"
          ELSE IF difference < -2 * window THEN "declining"
          ELSE "stable"

\* snapshots.map(s => s.uptime || 0).filter(u => u > 0)
PositiveUptimes(snapshots) ==
  SelectSeq([i \in 1..Len(snapshots) |-> [uptime |-> UptimeOr0(snapshots[i].uptime)]],
            LAMBDA s : s.uptime > 0)

\* The neighbours snapshots[i-1], snapshots[i] of which the first is
\* active and the second is not.
DowntimeEvents(snapshots) ==
  Cardinality({ i \in 2..Len(snapshots) : snapshots[i - 1].active /\ ~snapshots[i].active })

\* The neighbours that differ in active.
StabilityEvents(snapshots) ==
  Cardinality({ i \in 2..Len(snapshots) : snapshots[i - 1].active # snapshots[i].active })

\* analyzeSnapshotTrends; averageUptime (rounded to two decimals) is given
\* in hundredths of a percent.
analyzeSnapshotTrends(snapshots) ==
  IF Len(snapshots) = 0
    THEN [averageUptime |-> 0, downtimeEvents |-> 0, trend |-> "no_data"]
  ELSE LET uptimes == PositiveUptimes(snapshots)
       IN [averageUptime |-> IF Len(uptimes) > 0
                               THEN RoundDiv(100 * SumUptimeOr0(uptimes), Len(uptimes))
                               ELSE 0,
           downtimeEvents |-> DowntimeEvents(snapshots),
           trend |-> calculateUptimeTrend(snapshots)]

\* calculateStabilityScore, as the fraction num / den.
calculateStabilityScore(snapshots) ==
  IF Len(snapshots) < 2 THEN [num |-> 1, den |-> 2]
  ELSE [num |-> Len(snapshots) - StabilityEvents(snapshots),
        den |-> Len(snapshots)]

\* calculatePerformanceScore: 30 when active, 20 when not overloaded,
\* min(30, uptime * 0.3) when uptime is truthy, stability * 20; rounded.
calculatePerformanceScore(n, snapshots) ==
  LET stability == calculateStabilityScore(snapshots)
      whole == (IF n.active THEN 30 ELSE 0) + (IF ~n.overLoaded THEN 20 ELSE 0)
      uptime10 == IF UptimeOr0(n.uptime) # 0 THEN MathMin(300, n.uptime * 3) ELSE 0
  IN RoundDiv(whole * 10 * stability.den + uptime10 * stability.den
                + 200 * stability.num,
              10 * stability.den)

\* calculateReliabilityScore: uptime * 0.4 when uptime is truthy, 20 when
\* active, 10 when not overloaded, +10 / -10 by trend, -5 per downtime
\* event; rounded and not below 0.
calculateReliabilityScore(n, snapshots) ==
  LET trends == analyzeSnapshotTrends(snapshots)
      whole == (IF n.active THEN 20 ELSE 0) + (IF ~n.overLoaded THEN 10 ELSE 0)
                 + (IF trends.trend = "improving" THEN 10
                    ELSE IF trends.trend = "declining" THEN -10 ELSE 0)
                 - trends.downtimeEvents * 5
      uptime10 == IF UptimeOr0(n.uptime) # 0 THEN n.uptime * 4 ELSE 0
  IN MathMax(0, RoundDiv(whole * 10 + uptime10, 10))

\* snapshot.dateCreated is a day number here; 0 stands for a missing date.
calculateNodeAge(snapshots) ==
  IF Len(snapshots) = 0 THEN 0
  ELSE IF snapshots[Len(snapshots)].dateCreated = 0 \/ snapshots[1].dateCreated = 0 THEN 0
  ELSE snapshots[1].dateCreated - snapshots[Len(snapshots)].dateCreated

(***************************************************************************)
(* SpecRank: handleRankValidators on the nodes and snapshots the upstream  *)
(* can return.                                                             *)
(***************************************************************************)
MaxRankNodes == 2    \* the upstream knows at most MaxRankNodes nodes

\* What the upstream reports of a node, but for its public key.
RankNodeKinds ==
  [validating : BOOLEAN, active : BOOLEAN, overLoaded : {FALSE}, uptime : {Undefined, 50, 100}]

\* The node lists of getAllNodes; the public key of a node is its place.
RankNodeLists ==
  UNION { { [i \in 1..n |-> [publicKey |-> i, validating |-> kinds[i].validating,
                             active |-> kinds[i].active, overLoaded |-> kinds[i].overLoaded,
                             uptime |-> kinds[i].uptime]] :
            kinds \in [1..n -> RankNodeKinds] } : n \in 0..MaxRankNodes }

\* The snapshot lists of getNodeSnapshots, newest first: none, or a node
\* seen up two days before it was seen down.
SnapshotLists ==
  { <<>>,
    << [active |-> FALSE, uptime |-> Undefined, dateCreated |-> 3],
       [active |-> TRUE, uptime |-> 100, dateCreated |-> 1] >> }

\* args.sortBy and args.limit as the caller may give them.
SortBys == {"undefined", "uptime", "performance", "reliability", "stake", "age"}

Limits == {Undefined, 0, 1}

\* The switch on sortBy.
ScoreOf(sortBy, n, snapshots) ==
  CASE sortBy = "uptime" -> UptimeOr0(n.uptime)
    [] sortBy = "performance" -> calculatePerformanceScore(n, snapshots)
    [] sortBy = "age" -> calculateNodeAge(snapshots)
    [] OTHER -> calculateReliabilityScore(n, snapshots)

\* Array.prototype.sort with (a, b) => b.score - a.score: descending by
\* score, equal scores in their former order.
\* The entries of the scores given, those of the highest score first, the
\* entries of one score in their order in rankings.
RECURSIVE ByScores(_, _)
ByScores(rankings, scores) ==
  IF scores = {} THEN <<>>
  ELSE LET top == CHOOSE s \in scores : \A x \in scores : x <= s
       IN SelectSeq(rankings, LAMBDA r : r.score = top)
            \o ByScores(rankings, scores \ {top})

SortByScore(rankings) ==
  CHOOSE sorted \in
    { ByScores(entries, {entries[i].score : i \in 1..Len(entries)}) :
        entries \in {rankings \o <<>>} } : TRUE

RECURSIVE SumScores(_)
SumScores(rankings) ==
  IF rankings = <<>> THEN 0 ELSE Head(rankings).score + SumScores(Tail(rankings))

\* args.limit || 50
LimitOf(a) == IF a.limit = Undefined \/ a.limit = 0 THEN 50 ELSE a.limit

\* A ranking whose statistics are taken from the returned page.
rankValidators_pageStatistics(nodes, snapshotsOf, a) ==
  LET v0 == SelectSeq(nodes, IsValidating)
      validators == IF a.activeOnly # "false" THEN SelectSeq(v0, IsActive) ELSE v0
      rankedValidators ==
        SortByScore([i \in 1..Len(validators) |->
                       [publicKey |-> validators[i].publicKey,
                        score |-> ScoreOf(a.sortBy, validators[i], snapshotsOf[i])]])
      ranked == [i \in 1..Len(rankedValidators) |->
                   [rank |-> i, publicKey |-> rankedValidators[i].publicKey,
                    score |-> rankedValidators[i].score]]
      topValidators == SubSeq(ranked, 1, MathMin(LimitOf(a), Len(ranked)))
  IN [op |-> "rank_validators",
      validators |-> topValidators,
      ranking |-> [criteria |-> IF a.sortBy = "undefined" THEN "reliability" ELSE a.sortBy,
                   total |-> Len(ranked), shown |-> Len(topValidators)],
      statistics |-> [averageScore |-> [sum |-> SumScores(topValidators),
                                        count |-> Len(topValidators)],
                      topScore |-> IF Len(ranked) > 0 THEN ranked[1].score ELSE 0],
      ranked |-> ranked]

\* The part of handleRankValidators after the nodes have been fetched:
\* snapshotsOf[i] is what was fetched for the i-th validator ([] when the
\* call failed).  averageScore is the fraction sum / count; `ranked` is the
\* local rankedValidators, which the handler does not return.
rankValidators(nodes, snapshotsOf, a) ==
  LET v0 == SelectSeq(nodes, IsValidating)
      validators == IF a.activeOnly # "false" THEN SelectSeq(v0, IsActive) ELSE v0
      rankedValidators ==
        SortByScore([i \in 1..Len(validators) |->
                       [publicKey |-> validators[i].publicKey,
                        score |-> ScoreOf(a.sortBy, validators[i], snapshotsOf[i])]])
      ranked == [i \in 1..Len(rankedValidators) |->
                   [rank |-> i, publicKey |-> rankedValidators[i].publicKey,
                    score |-> rankedValidators[i].score]]
      topValidators == SubSeq(ranked, 1, MathMin(LimitOf(a), Len(ranked)))
  IN [op |-> "rank_validators",
      validators |-> topValidators,
      ranking |-> [criteria |-> IF a.sortBy = "undefined" THEN "reliability" ELSE a.sortBy,
                   total |-> Len(ranked), shown |-> Len(topValidators)],
      statistics |-> [averageScore |-> [sum |-> SumScores(ranked), count |-> Len(ranked)],
                      topScore |-> IF Len(ranked) > 0 THEN ranked[1].score ELSE 0],
      ranked |-> ranked]

\* The client calls of one handler, one after the other: us are the
\* upstream's answers; ok tells which calls succeeded.  The calls of the
\* former half of us are made before those of the latter half.
RECURSIVE makeRequests(_, _, _, _)
makeRequests(us, cnt, last, t) ==
  IF us = <<>> THEN [count |-> cnt, last |-> last, sent |-> 0, ok |-> <<>>]
  ELSE IF Len(us) = 1
    THEN LET r == makeRequest(cnt, last, t, us[1])
         IN [count |-> r.count, last |-> r.last, sent |-> IF r.sent THEN 1 ELSE 0,
             ok |-> <<r.result.success>>]
  ELSE LET half == Len(us) \div 2
       IN CHOOSE both \in
            UNION { { [count |-> latter.count, last |-> latter.last,
                       sent |-> former.sent + latter.sent,
                       ok |-> former.ok \o latter.ok] :
                        latter \in {makeRequests(SubSeq(us, half + 1, Len(us)),
                                                 former.count, former.last, t)} } :
                    former \in {makeRequests(SubSeq(us, 1, half), cnt, last, t)} } : TRUE

Failed503 == CHOOSE u \in UpstreamOutcomes : u.status = 503

\* The validators that handleRankValidators fetches snapshots for.
ValidatorsOf(nodes, a) ==
  IF a.activeOnly # "false"
    THEN SelectSeq(SelectSeq(nodes, IsValidating), IsActive)
    ELSE SelectSeq(nodes, IsValidating)

\* handleRankValidators: the nodes are fetched, then the snapshots of each
\* validator; snaps[i] is the upstream's answer for the i-th validator.
RankValidatorsOn(u, nodes, snaps, a) ==
  /\ \E fetched \in {makeRequest(requestCount, lastResetTime, now, u)} :
       IF ~fetched.result.success
         THEN /\ requestCount' = fetched.count
              /\ lastResetTime' = fetched.last
              /\ sentAt' = IF fetched.sent THEN [sentAt EXCEPT ![TickOf(now)] = @ + 1] ELSE sentAt
              /\ given' = [op |-> "rank_validators", args |-> a, nodes |-> <<>>, snapshots |-> <<>>]
              /\ result' = [op |-> "thrown",
                            message |-> <<"Failed to rank validators: ",
                                          ErrorOr(fetched.result, "Failed to fetch nodes for ranking")>>]
         ELSE \E n \in {Len(ValidatorsOf(nodes, a))} :
              \E calls \in {makeRequests([i \in 1..n |-> IF snaps[i].available
                                                        THEN Ok200 ELSE Failed503],
                                         fetched.count, fetched.last, now)} :
              \E snapshotsOf \in {[i \in 1..n |-> IF calls.ok[i] THEN snaps[i].data ELSE <<>>]} :
                /\ requestCount' = calls.count
                /\ lastResetTime' = calls.last
                /\ sentAt' = [sentAt EXCEPT ![TickOf(now)] = @ + 1 + calls.sent]
                /\ given' = [op |-> "rank_validators", args |-> a, nodes |-> nodes,
                             snapshots |-> snapshotsOf]
                /\ result' = rankValidators(nodes, snapshotsOf, a)

\* What the upstream answers to getNodeSnapshots: a list, or a failure.
SnapshotAnswers ==
  { [available |-> TRUE, data |-> l] : l \in SnapshotLists }
    \cup { [available |-> FALSE, data |-> <<>>] }

RankArgs == [sortBy : SortBys, limit : Limits, activeOnly : {"undefined", "false"}]

InitRank == InitClient

\* One invocation of rank_validators, on each input and upstream.
RankValidators ==
  /\ result = NoResult
  /\ \E u \in {Ok200, Failed503} : \E nodes \in RankNodeLists :
       \E snaps \in [1..MaxRankNodes -> SnapshotAnswers] :
         \E a \in RankArgs : RankValidatorsOn(u, nodes, snaps, a)
  /\ UNCHANGED <<now, lastCall, node, health>>
  /\ UNCHANGED toolVars

NextRank == RankValidators

SpecRank == InitRank /\ [][NextRank]_vars

Ranked == result.op = "rank_validators"

\* C11: the ranked list is in non-increasing order of score, its rank
\* fields are 1..N in list order, and the page returned is its first
\* min(limit, N) entries (limit is 50 when the caller gives none).
C11_SortedRankedAndPaged ==
  (Ranked /\ Len(result.ranked) > 0) =>
    LET ranked == result.ranked
        limit == IF given.args.limit = Undefined THEN 50 ELSE given.args.limit
    IN /\ \A i \in 1..Len(ranked) : \A j \in 1..Len(ranked) :
            i < j => ranked[i].score >= ranked[j].score
       /\ \A i \in 1..Len(ranked) : ranked[i].rank = i
       /\ result.validators = SubSeq(ranked, 1, MathMin(limit, Len(ranked)))

RECURSIVE SumOfScores(_, _, _)
SumOfScores(validators, snapshotsOf, sortBy) ==
  IF validators = <<>> THEN 0
  ELSE ScoreOf(sortBy, Head(validators), Head(snapshotsOf))
         + SumOfScores(Tail(validators), Tail(snapshotsOf), sortBy)

\* C19: total, averageScore and topScore are those of all the validators
\* ranked, whatever the page: total is their number, averageScore the sum
\* of their scores over their number, topScore the greatest score; and
\* the same data and sortBy with any other limit give the same three.
C19_StatisticsOverAllRanked ==
  Ranked =>
    LET validators == ValidatorsOf(given.nodes, given.args)
    IN /\ result.ranking.total = Len(validators)
       /\ result.statistics.averageScore.count = Len(validators)
       /\ result.statistics.averageScore.sum
            = SumOfScores(validators, given.snapshots, given.args.sortBy)
       /\ \A i \in 1..Len(validators) :
            result.statistics.topScore
              >= ScoreOf(given.args.sortBy, validators[i], given.snapshots[i])
       /\ \A l \in Limits :
            LET other == rankValidators(given.nodes, given.snapshots,
                                        [given.args EXCEPT !.limit = l])
            IN /\ other.statistics = result.statistics
               /\ other.ranking.total = result.ranking.total

\* A page cut by limit: fewer validators shown than ranked, and the
\* validator left out has a score of its own.
C19_Witness ==
  /\ Ranked
  /\ result.ranking.shown < result.ranking.total
  /\ result.ranked[1].score > result.ranked[2].score
  /\ result.ranked[2].score > 0

TooFewKeys(n, a) == n = "compare_nodes" /\ Len(a.publicKeys) < 2

\* C13: compare_nodes with fewer than 2 public keys makes no client call
\* and leaves the rate-limit counter as it was; it ends in the error
\* 'At least 2 nodes are required for comparison'.
C13_TooFewKeysNoRequest ==
  [][ (entry' = "CallTool" /\ TooFewKeys(name', args')) =>
        /\ requestCount' = requestCount
        /\ lastResetTime' = lastResetTime
        /\ sentAt' = sentAt
        /\ responses' = <<>>
        /\ (phase' = "done" =>
              /\ outcome' = Throw(0, <<"Failed to compare nodes: ",
                                       "At least 2 nodes are required for comparison">>)
              /\ "isError" \in DOMAIN envelope' /\ envelope'.isError) ]_vars

\* compare_nodes with one public key has ended in the error, the client
\* having counted requests before.
C13_Witness ==
  /\ Dispatched
  /\ name = "compare_nodes"
  /\ Len(args.publicKeys) = 1
  /\ outcome.st = "throw"
  /\ responses = <<>>
  /\ requestCount = maxRequestsPerMinute - Headroom

(***************************************************************************)
(* SpecRepeat: one invocation after the other through the CallTool         *)
(* handler, against an upstream that holds and answers the same            *)
(* throughout.  The client, with its request counter, is the one object    *)
(* that all invocations share.                                             *)
(***************************************************************************)
Datasets == [answer : {Ok200, Failed503}, nodes : NodeLists]

\* A client call of the invocation met the local rate limit.
Limited == \E i \in 1..Len(responses) : responses[i].gets = 0

\* The server is ready for the next request; the first invocation that
\* was completed is kept for comparison.
NextRequest ==
  /\ phase = "done"
  /\ phase' = "idle"
  /\ first' = IF first = NoFirst
                THEN [name |-> name, args |-> args, outcome |-> outcome, limited |-> Limited]
                ELSE first
  /\ entry' = "none"
  /\ name' = "none"
  /\ args' = NoArgs
  /\ responses' = <<>>
  /\ outcome' = NoOutcome
  /\ envelope' = NoEnvelope
  /\ UNCHANGED dataset
  /\ UNCHANGED clientVars
  /\ UNCHANGED scoringVars

InitRepeat ==
  /\ now = 0
  /\ lastResetTime = 0
  /\ requestCount = maxRequestsPerMinute - Headroom
  /\ sentAt = [k \in Ticks |-> IF k = 0 THEN requestCount ELSE 0]
  /\ lastCall = [method |-> "none"]
  /\ phase = "idle"
  /\ entry = "none"
  /\ name = "none"
  /\ args = NoArgs
  /\ responses = <<>>
  /\ outcome = NoOutcome
  /\ envelope = NoEnvelope
  /\ dataset \in Datasets
  /\ first = NoFirst
  /\ node = NoNode
  /\ health = NoHealth
  /\ given = NoGiven
  /\ result = NoResult

NextRepeat ==
  \/ \E n \in ToolNames : \E a \in ArgsFor(n) : CallTool(n, a)
  \/ ClientStep(dataset.answer, dataset.nodes)
  \/ Complete
  \/ NextRequest

SpecRepeat == InitRepeat /\ [][NextRepeat]_vars

\* The invocation that has ended is the first one made again.
Repeated ==
  /\ Dispatched
  /\ first # NoFirst
  /\ name = first.name
  /\ args = first.args

InitGiven(inputs) ==
  /\ now = 0
  /\ lastResetTime = 0
  /\ requestCount = maxRequestsPerMinute - Headroom
  /\ sentAt = [k \in Ticks |-> IF k = 0 THEN requestCount ELSE 0]
  /\ lastCall = [method |-> "none"]
  /\ phase = "idle"
  /\ entry = "none"
  /\ name = "none"
  /\ args = NoArgs
  /\ responses = <<>>
  /\ outcome = NoOutcome
  /\ envelope = NoEnvelope
  /\ dataset = NoDataset
  /\ first = NoFirst
  /\ node = NoNode
  /\ health = NoHealth
  /\ given \in inputs
  /\ result = NoResult

\* The function f is applied to the input of operation op.
Apply(op, value) ==
  /\ given.op = op
  /\ result = NoResult
  /\ result' = [op |-> op, value |-> value]
  /\ UNCHANGED <<node, health, given>>
  /\ UNCHANGED clientVars
  /\ UNCHANGED toolVars

(***************************************************************************)
(* SpecNetScore: NetworkTools.calculateNetworkHealthScore.  A score is the *)
(* exact fraction num / den.                                               *)
(***************************************************************************)
MaxNetNodes == 3

NetNodeKinds == [active : BOOLEAN, overLoaded : BOOLEAN, validating : BOOLEAN]

NetNodeLists == UNION {[1..n -> NetNodeKinds] : n \in 0..MaxNetNodes}

IsOverLoaded(n) == n.overLoaded

\* The score without its lower clamp.
calculateNetworkHealthScore_unclamped(nodes) ==
  IF Len(nodes) = 0 THEN [num |-> 0, den |-> 1]
  ELSE LET n == Len(nodes)
           activeNodes == Len(SelectSeq(nodes, IsActive))
           overloadedNodes == Len(SelectSeq(nodes, IsOverLoaded))
           validators == Len(SelectSeq(nodes, IsValidating))
       IN [num |-> MathMin(100 * n, activeNodes * 80 - overloadedNodes * 30
                                     + MathMin(validators * 20, 20 * n)),
           den |-> n]

\* activeRatio * 80 - overloadPenalty + validatorBonus, all three over
\* nodes.length, between 0 and 100.
calculateNetworkHealthScore(nodes) ==
  IF Len(nodes) = 0 THEN [num |-> 0, den |-> 1]
  ELSE LET n == Len(nodes)
           activeNodes == Len(SelectSeq(nodes, IsActive))
           overloadedNodes == Len(SelectSeq(nodes, IsOverLoaded))
           validators == Len(SelectSeq(nodes, IsValidating))
       IN [num |-> MathMax(0, MathMin(100 * n, activeNodes * 80 - overloadedNodes * 30
                                                + MathMin(validators * 20, 20 * n))),
           den |-> n]

NetScoreInputs == [op : {"calculateNetworkHealthScore"}, nodes : NetNodeLists]

InitNetScore == InitGiven(NetScoreInputs)

CalculateNetworkHealthScore ==
  /\ given.op = "calculateNetworkHealthScore"
  /\ Apply("calculateNetworkHealthScore", calculateNetworkHealthScore(given.nodes))

NextNetScore == CalculateNetworkHealthScore

SpecNetScore == InitNetScore /\ [][NextNetScore]_vars

\* The node list with its i-th node active, everything else as it was.
WithActive(nodes, i) == [nodes EXCEPT ![i].active = TRUE]

\* C14: the score is 0 for the empty list, lies between 0 and 100 for every
\* list, and does not decrease when one more node is active while the
\* number of nodes, of overloaded nodes and of validators stay the same.
C14_ScoreRangeAndMonotone ==
  result.op = "calculateNetworkHealthScore" =>
    /\ given.nodes = <<>> => result.value.num = 0
    /\ result.value.num >= 0
    /\ result.value.num <= 100 * result.value.den
    /\ \A i \in 1..Len(given.nodes) :
         ~given.nodes[i].active =>
           calculateNetworkHealthScore(WithActive(given.nodes, i)).num * result.value.den
             >= result.value.num * calculateNetworkHealthScore(WithActive(given.nodes, i)).den

\* A list whose raw score is below 0: every node inactive and overloaded,
\* no validator; the score is 0 and stays within the range when one node
\* becomes active.
C14_Witness ==
  /\ result.op = "calculateNetworkHealthScore"
  /\ Len(given.nodes) >= 2
  /\ \A i \in 1..Len(given.nodes) :
       ~given.nodes[i].active /\ given.nodes[i].overLoaded /\ ~given.nodes[i].validating
  /\ result.value.num = 0
  /\ calculateNetworkHealthScore(WithActive(given.nodes, 1)).num > 0

(***************************************************************************)
(* SpecOrg: OrganizationTools.handleAnalyzeOrganizationReliability.  An    *)
(* uptime is a percentage or Undefined; a ratio or an average is the exact *)
(* fraction num / den.                                                     *)
(***************************************************************************)
MaxOrgNodes == 2

OrganizationIds == {1, 2}

OrgNodeKinds ==
  [organizationId : OrganizationIds, active : BOOLEAN, overLoaded : BOOLEAN,
   uptime : {Undefined, 0, 100}, validating24HoursPercentage : {0, 100}]

OrgNodeLists == UNION {[1..n -> OrgNodeKinds] : n \in 0..MaxOrgNodes}

RECURSIVE SumUptimes(_)
SumUptimes(nodes) ==
  IF nodes = <<>> THEN 0 ELSE UptimeOr0(Head(nodes).uptime) + SumUptimes(Tail(nodes))

getReliabilityGrade(score) ==
  IF score >= 95 THEN "A+"
  ELSE IF score >= 90 THEN "A"
  ELSE IF score >= 85 THEN "B+"
  ELSE IF score >= 80 THEN "B"
  ELSE IF score >= 75 THEN "C+"
  ELSE IF score >= 70 THEN "C"
  ELSE IF score >= 60 THEN "D"
  ELSE "F"

\* getUptimeGrade of the average num / den
getUptimeGrade(num, den) ==
  IF 10 * num >= 999 * den THEN "Excellent"
  ELSE IF 10 * num >= 995 * den THEN "Very Good"
  ELSE IF num >= 99 * den THEN "Good"
  ELSE IF num >= 95 * den THEN "Fair"
  ELSE "Poor"

\* The reliability with a score that is rounded but not kept at or above 0.
calculateOrganizationReliability_unclamped(n, active, validators, activeValidators, overloaded, sum, cnt) ==
  LET lowActive == 10 * active < 9 * n
      lowUptime == sum < 95 * cnt
      highOverload == 10 * overloaded > n
      downtime == validators > 0 /\ 100 * activeValidators < 95 * validators
      \* the score before rounding, over n * cnt
      num == 100 * n * cnt
             - (IF lowActive THEN 45 * n * cnt - 50 * active * cnt ELSE 0)
             - (IF lowUptime THEN 190 * n * cnt - 2 * sum * n ELSE 0)
             - (IF highOverload THEN 30 * overloaded * cnt ELSE 0)
             - (IF downtime THEN 20 * n * cnt ELSE 0)
      score == RoundDiv(num, n * cnt)
  IN [score |-> score,
      grade |-> getReliabilityGrade(score),
      issues |->
        (IF lowActive
           THEN <<[issue |-> "Low active node ratio: %", value |-> RoundDiv(100 * active, n)]>>
           ELSE <<>>)
        \o (IF lowUptime
              THEN <<[issue |-> "Low average uptime: %", value |-> RoundDiv(10 * sum, cnt)]>>
              ELSE <<>>)
        \o (IF highOverload
              THEN <<[issue |-> "High overload ratio: %", value |-> RoundDiv(100 * overloaded, n)]>>
              ELSE <<>>)
        \o (IF downtime
              THEN <<[issue |-> "Validator downtime detected", value |-> 0]>>
              ELSE <<>>)]

\* calculateOrganizationReliability, with the lengths of the four lists,
\* the number of active validators and the average uptime sum / cnt.
calculateOrganizationReliability(n, active, validators, activeValidators, overloaded, sum, cnt) ==
  LET lowActive == 10 * active < 9 * n
      lowUptime == sum < 95 * cnt
      highOverload == 10 * overloaded > n
      downtime == validators > 0 /\ 100 * activeValidators < 95 * validators
      \* the score before rounding, over n * cnt
      num == 100 * n * cnt
             - (IF lowActive THEN 45 * n * cnt - 50 * active * cnt ELSE 0)
             - (IF lowUptime THEN 190 * n * cnt - 2 * sum * n ELSE 0)
             - (IF highOverload THEN 30 * overloaded * cnt ELSE 0)
             - (IF downtime THEN 20 * n * cnt ELSE 0)
      score == MathMax(0, RoundDiv(num, n * cnt))
  IN [score |-> score,
      grade |-> getReliabilityGrade(score),
      issues |->
        (IF lowActive
           THEN <<[issue |-> "Low active node ratio: %", value |-> RoundDiv(100 * active, n)]>>
           ELSE <<>>)
        \o (IF lowUptime
              THEN <<[issue |-> "Low average uptime: %", value |-> RoundDiv(10 * sum, cnt)]>>
              ELSE <<>>)
        \o (IF highOverload
              THEN <<[issue |-> "High overload ratio: %", value |-> RoundDiv(100 * overloaded, n)]>>
              ELSE <<>>)
        \o (IF downtime
              THEN <<[issue |-> "Validator downtime detected", value |-> 0]>>
              ELSE <<>>)]

\* The answer for an organization without nodes, graded like any other.
NoNodesAnalysis_graded(organizationId) ==
  [op |-> "analyze_organization_reliability",
   organizationId |-> organizationId,
   reliability |-> [score |-> 0, grade |-> getReliabilityGrade(0),
                    issues |-> <<[issue |-> "No nodes found for this organization", value |-> 0]>>],
   nodeStatistics |-> [total |-> 0, active |-> 0, validators |-> 0, overloaded |-> 0],
   performance |-> [reported |-> FALSE]]

\* if (orgNodes.length === 0) return { ... }
NoNodesAnalysis(organizationId) ==
  [op |-> "analyze_organization_reliability",
   organizationId |-> organizationId,
   reliability |-> [score |-> 0, grade |-> "N/A",
                    issues |-> <<[issue |-> "No nodes found for this organization", value |-> 0]>>],
   nodeStatistics |-> [total |-> 0, active |-> 0, validators |-> 0, overloaded |-> 0],
   performance |-> [reported |-> FALSE]]

HasValidated(n) == n.validating24HoursPercentage > 0
HasUptime(n) == n.uptime # Undefined

\* node.organizationId === args.organizationId
OrgNodesOf(allNodes, organizationId) ==
  SelectSeq(allNodes, LAMBDA n : n.organizationId = organizationId)

\* handleAnalyzeOrganizationReliability once both responses succeeded.
analyzeOrganizationReliability(organizationId, allNodes) ==
  LET orgNodes == OrgNodesOf(allNodes, organizationId)
      activeNodes == SelectSeq(orgNodes, IsActive)
      validators == SelectSeq(orgNodes, HasValidated)
      overloadedNodes == SelectSeq(orgNodes, IsOverLoaded)
      nodesWithUptime == SelectSeq(orgNodes, HasUptime)
      \* averageUptime = sum / cnt; 0 when no node has an uptime
      sum == SumUptimes(nodesWithUptime)
      cnt == IF Len(nodesWithUptime) > 0 THEN Len(nodesWithUptime) ELSE 1
  IN IF Len(orgNodes) = 0 THEN NoNodesAnalysis(organizationId)
     ELSE [op |-> "analyze_organization_reliability",
           organizationId |-> organizationId,
           reliability |->
             calculateOrganizationReliability(Len(orgNodes), Len(activeNodes), Len(validators),
                                              Len(SelectSeq(validators, IsActive)),
                                              Len(overloadedNodes), sum, cnt),
           nodeStatistics |-> [total |-> Len(orgNodes), active |-> Len(activeNodes),
                               validators |-> Len(validators),
                               overloaded |-> Len(overloadedNodes)],
           performance |->
             [reported |-> TRUE,
              \* Math.round(averageUptime * 100) / 100, in hundredths
              averageUptime |-> RoundDiv(100 * sum, cnt),
              uptimeGrade |-> getUptimeGrade(sum, cnt),
              activeRatio |-> [num |-> Len(activeNodes), den |-> Len(orgNodes)],
              validatorRatio |-> [num |-> Len(validators), den |-> Len(orgNodes)]]]

\* handleAnalyzeOrganizationReliability: the organization and the nodes
\* are requested together; either failure is thrown, the organization's
\* first.
AnalyzeOrganizationReliabilityOn(uOrg, uNodes, organizationId, allNodes) ==
  \E org \in {makeRequest(requestCount, lastResetTime, now, uOrg)} :
  \E nds \in {makeRequest(org.count, org.last, now, uNodes)} :
    /\ requestCount' = nds.count
    /\ lastResetTime' = nds.last
    /\ sentAt' = [sentAt EXCEPT ![TickOf(now)] =
                    @ + (IF org.sent THEN 1 ELSE 0) + (IF nds.sent THEN 1 ELSE 0)]
    /\ given' = [op |-> "analyze_organization_reliability",
                 organizationId |-> organizationId,
                 nodes |-> IF nds.result.success THEN allNodes ELSE <<>>]
    /\ result' =
         IF ~org.result.success
           THEN [op |-> "thrown",
                 message |-> <<"Failed to analyze organization reliability: ",
                               ErrorOr(org.result, "Failed to fetch organization")>>]
         ELSE IF ~nds.result.success
           THEN [op |-> "thrown",
                 message |-> <<"Failed to analyze organization reliability: ",
                               ErrorOr(nds.result, "Failed to fetch nodes")>>]
         ELSE analyzeOrganizationReliability(organizationId, allNodes)

InitOrg == InitClient

\* One invocation of analyze_organization_reliability, on each input and
\* upstream.
AnalyzeOrganizationReliability ==
  /\ result = NoResult
  /\ \E uOrg \in {Ok200, Failed503} : \E uNodes \in {Ok200, Failed503} :
       \E organizationId \in OrganizationIds : \E allNodes \in OrgNodeLists :
         AnalyzeOrganizationReliabilityOn(uOrg, uNodes, organizationId, allNodes)
  /\ UNCHANGED <<now, lastCall, node, health>>
  /\ UNCHANGED toolVars

NextOrg == AnalyzeOrganizationReliability

SpecOrg == InitOrg /\ [][NextOrg]_vars

\* C15: for an organization that the upstream knows but that no node
\* belongs to, the answer has reliability score 0, grade 'N/A', the one
\* issue 'No nodes found for this organization' and node statistics that
\* are all 0, and no ratio over the node count is computed.
C15_NoNodesAnswer ==
  (/\ result.op = "analyze_organization_reliability"
   /\ OrgNodesOf(given.nodes, given.organizationId) = <<>>) =>
    /\ result.reliability.score = 0
    /\ result.reliability.grade = "N/A"
    /\ Len(result.reliability.issues) = 1
    /\ result.reliability.issues[1].issue = "No nodes found for this organization"
    /\ result.nodeStatistics = [total |-> 0, active |-> 0, validators |-> 0, overloaded |-> 0]
    /\ ~result.performance.reported

\* The upstream has nodes, all of the other organization.
C15_Witness ==
  /\ result.op = "analyze_organization_reliability"
  /\ Len(given.nodes) = MaxOrgNodes
  /\ OrgNodesOf(given.nodes, given.organizationId) = <<>>
  /\ result.reliability.grade = "N/A"

\* The nodes given that belong to the organization asked for, by position.
OrgMembers == {i \in 1..Len(given.nodes) : given.nodes[i].organizationId = given.organizationId}
MembersActive == {i \in OrgMembers : given.nodes[i].active}
MembersOverloaded == {i \in OrgMembers : given.nodes[i].overLoaded}
MembersValidating == {i \in OrgMembers : given.nodes[i].validating24HoursPercentage > 0}
MembersWithUptime == {i \in OrgMembers : given.nodes[i].uptime # Undefined}

RECURSIVE SumUptimeOf(_)
SumUptimeOf(members) ==
  IF members = {} THEN 0
  ELSE LET i == CHOOSE m \in members : TRUE
       IN given.nodes[i].uptime + SumUptimeOf(members \ {i})

\* 100 minus the four deductions, as a fraction over
\* 10 * members * (members with an uptime, or 1 when there is none, the
\* average then being 0).
ReliabilityDen ==
  10 * Cardinality(OrgMembers)
     * (IF MembersWithUptime = {} THEN 1 ELSE Cardinality(MembersWithUptime))
ReliabilityNum ==
  LET n == Cardinality(OrgMembers)
      c == IF MembersWithUptime = {} THEN 1 ELSE Cardinality(MembersWithUptime)
      u == SumUptimeOf(MembersWithUptime)
      a == Cardinality(MembersActive)
      o == Cardinality(MembersOverloaded)
      v == Cardinality(MembersValidating)
      va == Cardinality(MembersValidating \cap MembersActive)
  IN 1000 * n * c
       - (IF 10 * a < 9 * n THEN 5 * (9 * n - 10 * a) * 10 * c ELSE 0)
       - (IF u < 95 * c THEN 2 * (95 * c - u) * 10 * n ELSE 0)
       - (IF 10 * o > n THEN 300 * o * c ELSE 0)
       - (IF v > 0 /\ 100 * va < 95 * v THEN 200 * n * c ELSE 0)

\* C23: for an organization with at least one node the score is an
\* integer from 0 to 100, namely 100 minus the deductions for a low
\* active ratio, a low average uptime, a high overload ratio and validator
\* downtime, not below 0 and rounded; the grade is that of the bands
\* applied to the score returned.
C23_ReliabilityScoreAndGrade ==
  (result.op = "analyze_organization_reliability" /\ OrgMembers # {}) =>
    /\ result.reliability.score \in 0..100
    /\ IF 2 * ReliabilityNum + ReliabilityDen < 0
         THEN result.reliability.score = 0
         ELSE /\ 2 * ReliabilityDen * result.reliability.score
                   <= 2 * ReliabilityNum + ReliabilityDen
              /\ 2 * ReliabilityNum + ReliabilityDen
                   < 2 * ReliabilityDen * (result.reliability.score + 1)
    /\ result.reliability.grade =
         (CASE result.reliability.score >= 95 -> "A+"
            [] result.reliability.score \in 90..94 -> "A"
            [] result.reliability.score \in 85..89 -> "B+"
            [] result.reliability.score \in 80..84 -> "B"
            [] result.reliability.score \in 75..79 -> "C+"
            [] result.reliability.score \in 70..74 -> "C"
            [] result.reliability.score \in 60..69 -> "D"
            [] OTHER -> "F")

\* An organization whose deductions exceed 100, and one in between.
C23_Witness ==
  /\ result.op = "analyze_organization_reliability"
  /\ Cardinality(OrgMembers) = 2
  /\ Cardinality(MembersWithUptime) = 2
  /\ result.reliability.score \in 1..99
  /\ result.reliability.grade # "F"
  /\ Len(result.reliability.issues) >= 1

(***************************************************************************)
(* SpecTrend: NodeTools.analyzeSnapshotTrends and calculateUptimeTrend on  *)
(* snapshot lists, newest first.  The two windows of the trend differ only *)
(* for more than 10 snapshots, so the lists are long: a first snapshot, a  *)
(* run of equal ones, a last one.                                          *)
(***************************************************************************)
MaxMiddle == 9

TrendUptimes == {Undefined, 0, 79, 80, 100}

Snapshot(u) == [active |-> TRUE, uptime |-> u]

TrendSnapshotLists ==
  {<<>>}
    \cup { <<Snapshot(a)>> : a \in TrendUptimes }
    \cup { <<Snapshot(a)>> \o [i \in 1..k |-> Snapshot(m)] \o <<Snapshot(b)>> :
             a \in TrendUptimes, m \in TrendUptimes, b \in TrendUptimes, k \in 0..MaxMiddle }

TrendInputs == [op : {"analyzeSnapshotTrends", "calculateUptimeTrend"},
                snapshots : TrendSnapshotLists]

InitTrend == InitGiven(TrendInputs)

AnalyzeSnapshotTrends ==
  /\ given.op = "analyzeSnapshotTrends"
  /\ Apply("analyzeSnapshotTrends", analyzeSnapshotTrends(given.snapshots))

CalculateUptimeTrend ==
  /\ given.op = "calculateUptimeTrend"
  /\ Apply("calculateUptimeTrend", calculateUptimeTrend(given.snapshots))

NextTrend == AnalyzeSnapshotTrends \/ CalculateUptimeTrend

SpecTrend == InitTrend /\ [][NextTrend]_vars

\* The snapshots that have an uptime, and the sum of their uptimes.
WithUptime(snapshots) == SelectSeq(snapshots, LAMBDA x : x.uptime # Undefined)

RECURSIVE SumPresent(_)
SumPresent(snapshots) ==
  IF snapshots = <<>> THEN 0
  ELSE (IF Head(snapshots).uptime = Undefined THEN 0 ELSE Head(snapshots).uptime)
         + SumPresent(Tail(snapshots))

\* The first and the last min(10, n) snapshots.
FirstTen(snapshots) ==
  SubSeq(snapshots, 1, IF Len(snapshots) < 10 THEN Len(snapshots) ELSE 10)
LastTen(snapshots) ==
  SubSeq(snapshots, IF Len(snapshots) < 10 THEN 1 ELSE Len(snapshots) - 9, Len(snapshots))

\* The trend of two averages rs / rn and os / on (rn, on > 0).
TrendOfAverages(rs, rn, os, on) ==
  IF rs * on - os * rn > 2 * rn * on THEN "improving"
  ELSE IF rs * on - os * rn < -2 * rn * on THEN "declining"
  ELSE "stable"

\* C16 (as stated): a snapshot without an uptime is left out of the sum
\* and of the count of every average: the trend is that of the averages
\* over the snapshots of each window that have an uptime, and the average
\* uptime is the average over the snapshots that have one.
C16_AbsentUptimeLeftOut ==
  (/\ result.op = "analyzeSnapshotTrends"
   /\ Len(given.snapshots) >= 2
   /\ WithUptime(FirstTen(given.snapshots)) # <<>>
   /\ WithUptime(LastTen(given.snapshots)) # <<>>) =>
    /\ result.value.trend =
         TrendOfAverages(SumPresent(FirstTen(given.snapshots)),
                         Len(WithUptime(FirstTen(given.snapshots))),
                         SumPresent(LastTen(given.snapshots)),
                         Len(WithUptime(LastTen(given.snapshots))))
    /\ result.value.averageUptime =
         RoundDiv(100 * SumPresent(given.snapshots), Len(WithUptime(given.snapshots)))

\* C20: calculateUptimeTrend gives insufficient_data for fewer than 2
\* snapshots; otherwise, every snapshot having an uptime, it gives improving
\* iff the average of the first min(10, n) minus the average of the last
\* min(10, n) is above 2, declining iff it is below -2, and stable
\* otherwise.
C20_TrendOfWindows ==
  result.op = "calculateUptimeTrend" =>
    /\ Len(given.snapshots) < 2 => result.value = "insufficient_data"
    /\ (Len(given.snapshots) >= 2 /\ WithUptime(given.snapshots) = given.snapshots) =>
         result.value =
           TrendOfAverages(SumPresent(FirstTen(given.snapshots)),
                           Len(FirstTen(given.snapshots)),
                           SumPresent(LastTen(given.snapshots)),
                           Len(LastTen(given.snapshots)))

\* More than 10 snapshots, all with an uptime, whose windows differ by
\* more than 2 on average.
C20_Witness ==
  /\ result.op = "calculateUptimeTrend"
  /\ Len(given.snapshots) > 10
  /\ WithUptime(given.snapshots) = given.snapshots
  /\ result.value = "improving"

\* The trend returned by either operation.
TrendReturned ==
  IF result.op = "calculateUptimeTrend" THEN result.value
  ELSE IF result.op = "analyzeSnapshotTrends" THEN result.value.trend
  ELSE "none"

\* C30: for 2 to 10 snapshots the recent and the older window are the
\* same snapshots and the trend is stable whatever the uptimes; improving
\* and declining are returned only for 11 snapshots or more.
C30_StableUpToTen ==
  result # NoResult =>
    /\ Len(given.snapshots) \in 2..10 =>
         /\ RecentSnapshots(given.snapshots) = given.snapshots
         /\ OlderSnapshots(given.snapshots) = given.snapshots
         /\ TrendReturned = "stable"
    /\ TrendReturned \in {"improving", "declining"} => Len(given.snapshots) >= 11

\* Ten snapshots from uptime 100 down to 0, with a stable trend.
C30_Witness ==
  /\ result.op = "calculateUptimeTrend"
  /\ Len(given.snapshots) = 10
  /\ given.snapshots[1].uptime = 100
  /\ given.snapshots[10].uptime = 0
  /\ result.value = "stable"

(***************************************************************************)
(* SpecFailing: NodeTools.handleFindFailingNodes.  Uptimes are whole       *)
(* percents or Undefined.                                                  *)
(***************************************************************************)
MaxFailingNodes == 2

FailingNodeKinds ==
  [active : BOOLEAN, overLoaded : BOOLEAN, validating : BOOLEAN,
   uptime : {Undefined, 79, 80, 89, 90}]

FailingNodeLists == UNION {[1..n -> FailingNodeKinds] : n \in 0..MaxFailingNodes}

\* args.severity; "undefined" when it is not given
Severities == {"undefined", "all", "critical", "warning"}

\* The issues pushed for one node, in the order of the code.
issuesOf(n) ==
  (IF ~n.active THEN <<"Node is offline">> ELSE <<>>)
    \o (IF n.overLoaded THEN <<"Node is overloaded">> ELSE <<>>)
    \o (IF n.uptime # Undefined /\ n.uptime < 90 THEN <<"Low uptime: %">> ELSE <<>>)
    \o (IF n.validating /\ ~n.active THEN <<"Validator is offline">> ELSE <<>>)

\* let severity = 'warning', set to 'critical' by four of the tests
severityOf(n) ==
  IF \/ ~n.active
     \/ n.overLoaded /\ n.validating
     \/ n.uptime # Undefined /\ n.uptime < 90 /\ n.uptime < 80
     \/ n.validating /\ ~n.active
    THEN "critical" ELSE "warning"

\* A filter that passes the named severity only.
passesSeverity_exact(filter, severity) ==
  \/ filter = "undefined"
  \/ filter = "all"
  \/ filter = severity

\* !args.severity || args.severity === 'all' || ... || ...
passesSeverity(filter, severity) ==
  \/ filter = "undefined"
  \/ filter = "all"
  \/ filter = "critical" /\ severity = "critical"
  \/ filter = "warning" /\ severity \in {"warning", "critical"}

\* handleFindFailingNodes once the nodes are fetched.
findFailingNodes(nodes, filter) ==
  LET entries == [i \in 1..Len(nodes) |->
                    [node |-> nodes[i], issues |-> issuesOf(nodes[i]),
                     severity |-> severityOf(nodes[i])]]
      failingNodes == SelectSeq(entries,
                                LAMBDA e : Len(e.issues) > 0 /\ passesSeverity(filter, e.severity))
  IN [op |-> "find_failing_nodes",
      failingNodes |-> failingNodes,
      summary |->
        [total |-> Len(failingNodes),
         critical |-> Len(SelectSeq(failingNodes, LAMBDA e : e.severity = "critical")),
         warning |-> Len(SelectSeq(failingNodes, LAMBDA e : e.severity = "warning")),
         validatorsAffected |-> Len(SelectSeq(failingNodes, LAMBDA e : e.node.validating))]]

\* handleFindFailingNodes: the nodes are fetched; a failure is thrown.
FindFailingNodesOn(u, nodes, filter) ==
  \E fetched \in {makeRequest(requestCount, lastResetTime, now, u)} :
    /\ requestCount' = fetched.count
    /\ lastResetTime' = fetched.last
    /\ sentAt' = IF fetched.sent THEN [sentAt EXCEPT ![TickOf(now)] = @ + 1] ELSE sentAt
    /\ given' = [op |-> "find_failing_nodes", severity |-> filter,
                 nodes |-> IF fetched.result.success THEN nodes ELSE <<>>]
    /\ result' = IF fetched.result.success
                   THEN findFailingNodes(nodes, filter)
                   ELSE [op |-> "thrown",
                         message |-> <<"Failed to find failing nodes: ",
                                       ErrorOr(fetched.result, "Failed to fetch nodes")>>]

InitFailing == InitClient

\* One invocation of find_failing_nodes, on each input and upstream.
FindFailingNodes ==
  /\ result = NoResult
  /\ \E u \in {Ok200, Failed503} : \E nodes \in FailingNodeLists :
       \E filter \in Severities : FindFailingNodesOn(u, nodes, filter)
  /\ UNCHANGED <<now, lastCall, node, health>>
  /\ UNCHANGED toolVars

NextFailing == FindFailingNodes

SpecFailing == InitFailing /\ [][NextFailing]_vars

\* The node has one of the four issues.
Failing(n) ==
  \/ ~n.active
  \/ n.overLoaded
  \/ n.uptime # Undefined /\ n.uptime < 90
  \/ n.validating /\ ~n.active

\* The node is inactive, or overloaded while validating, or below 80.
Critical(n) ==
  \/ ~n.active
  \/ n.overLoaded /\ n.validating
  \/ n.uptime # Undefined /\ n.uptime < 80

\* The filter lets a node through that is critical (c) or not.
LetThrough(filter, c) ==
  CASE filter \in {"undefined", "all"} -> TRUE
    [] filter = "critical" -> c
    [] filter = "warning" -> TRUE

\* C18: the nodes returned are, in the upstream's order, the nodes that
\* have an issue and that the severity filter lets through, each with
\* severity critical iff it is inactive, overloaded while validating or
\* below 80% uptime, and warning otherwise.
C18_SeverityAndFilter ==
  result.op = "find_failing_nodes" =>
    [i \in 1..Len(result.failingNodes) |->
       [node |-> result.failingNodes[i].node, severity |-> result.failingNodes[i].severity]]
      = SelectSeq([i \in 1..Len(given.nodes) |->
                     [node |-> given.nodes[i],
                      severity |-> IF Critical(given.nodes[i]) THEN "critical" ELSE "warning"]],
                  LAMBDA e : Failing(e.node) /\ LetThrough(given.severity, e.severity = "critical"))

\* The 'warning' filter on a critical node, a warning node and, by the
\* list's length, nothing else: both are returned.
C18_Witness ==
  /\ result.op = "find_failing_nodes"
  /\ given.severity = "warning"
  /\ Len(given.nodes) = 2
  /\ Len(result.failingNodes) = 2
  /\ result.failingNodes[1].severity = "critical"
  /\ result.failingNodes[2].severity = "warning"

(***************************************************************************)
(* SpecConsensus: NetworkTools.handleCheckNetworkConsensus.  A node's      *)
(* organizationId is a string, "undefined" when it has none.               *)
(***************************************************************************)
MaxConsensusNodes == 3
MaxValidatorRun == 11

ConsensusOrganizations == {"undefined", "orgA", "orgB", "orgC"}

\* A validator, an overloaded validator, a validator that is not active,
\* an active node that does not validate; each in every organization.
ConsensusNodeKinds ==
  { [validating |-> k[1], active |-> k[2], overLoaded |-> k[3], organizationId |-> o] :
      k \in {<<TRUE, TRUE, FALSE>>, <<TRUE, TRUE, TRUE>>, <<TRUE, FALSE, FALSE>>,
             <<FALSE, TRUE, FALSE>>},
      o \in ConsensusOrganizations }

\* Lists of every kind of node, and runs of validators whose organizations
\* alternate among the first m of the four.
ConsensusNodeLists ==
  UNION {[1..n -> ConsensusNodeKinds] : n \in 0..MaxConsensusNodes}
    \cup { [i \in 1..n |-> [validating |-> TRUE, active |-> TRUE, overLoaded |-> FALSE,
                            organizationId |-> <<"undefined", "orgA", "orgB", "orgC">>[(i % m) + 1]]] :
             n \in (MaxConsensusNodes + 1)..MaxValidatorRun, m \in 1..4 }

\* validator.organizationId || 'unknown'
OrgKeyOf(v) == IF v.organizationId = "undefined" THEN "unknown" ELSE v.organizationId

\* The heuristic with 2 validators accepted.
analyzeQuorumIntersection_two(validators) ==
  IF Len(validators) < 4 THEN Len(validators) >= 2
  ELSE LET organizations == {OrgKeyOf(validators[i]) : i \in 1..Len(validators)}
           perOrg(o) == Cardinality({i \in 1..Len(validators) : OrgKeyOf(validators[i]) = o})
       IN /\ \A o \in organizations : 2 * perOrg(o) < Len(validators)
          /\ Cardinality(organizations) >= 3

\* The heuristic with an organization of exactly half accepted.
analyzeQuorumIntersection_half(validators) ==
  IF Len(validators) < 4 THEN Len(validators) >= 3
  ELSE LET organizations == {OrgKeyOf(validators[i]) : i \in 1..Len(validators)}
           perOrg(o) == Cardinality({i \in 1..Len(validators) : OrgKeyOf(validators[i]) = o})
       IN /\ \A o \in organizations : 2 * perOrg(o) <= Len(validators)
          /\ Cardinality(organizations) >= 3

\* analyzeQuorumIntersection: the validators are counted by organization
\* (those without one under the key 'unknown'); the largest count is
\* compared with half of the number of validators.
analyzeQuorumIntersection(validators) ==
  IF Len(validators) < 4 THEN Len(validators) >= 3
  ELSE LET organizations == {OrgKeyOf(validators[i]) : i \in 1..Len(validators)}
           perOrg(o) == Cardinality({i \in 1..Len(validators) : OrgKeyOf(validators[i]) = o})
       IN /\ \A o \in organizations : 2 * perOrg(o) < Len(validators)
          /\ Cardinality(organizations) >= 3

\* The safety level with 10 taken off per issue.
calculateSafetyLevel_ten(validatorCount, issueCount) ==
  MathMax(0, MathMin(validatorCount * 10, 100) - issueCount * 10)

\* calculateSafetyLevel(validators, issueCount), of validators.length
calculateSafetyLevel(validatorCount, issueCount) ==
  MathMax(0, MathMin(validatorCount * 10, 100) - issueCount * 15)

IsActiveValidator(n) == n.validating /\ n.active

\* handleCheckNetworkConsensus once the network information is fetched.
checkNetworkConsensus(nodes) ==
  LET validators == SelectSeq(nodes, IsActiveValidator)
      overloadedValidators == SelectSeq(validators, IsOverLoaded)
      quorumIntersection == analyzeQuorumIntersection(validators)
      issues ==
        (IF Len(validators) < 3
           THEN <<[issue |-> "Insufficient number of active validators for safe consensus",
                   value |-> 0]>>
           ELSE <<>>)
        \o (IF Len(overloadedValidators) > 0
              THEN <<[issue |-> "% validators are overloaded",
                      value |-> Len(overloadedValidators)]>>
              ELSE <<>>)
        \o (IF ~quorumIntersection
              THEN <<[issue |-> "Potential quorum intersection issues detected", value |-> 0]>>
              ELSE <<>>)
  IN [op |-> "check_network_consensus",
      healthy |-> Len(issues) = 0,
      issues |-> issues,
      quorumIntersection |-> quorumIntersection,
      safetyLevel |-> calculateSafetyLevel(Len(validators), Len(issues))]

\* handleCheckNetworkConsensus: the network information is fetched; a
\* failure is thrown.
CheckNetworkConsensusOn(u, nodes) ==
  \E fetched \in {makeRequest(requestCount, lastResetTime, now, u)} :
    /\ requestCount' = fetched.count
    /\ lastResetTime' = fetched.last
    /\ sentAt' = IF fetched.sent THEN [sentAt EXCEPT ![TickOf(now)] = @ + 1] ELSE sentAt
    /\ given' = [op |-> "check_network_consensus",
                 nodes |-> IF fetched.result.success THEN nodes ELSE <<>>]
    /\ result' = IF fetched.result.success
                   THEN checkNetworkConsensus(nodes)
                   ELSE [op |-> "thrown",
                         message |-> <<"Failed to check network consensus: ",
                                       ErrorOr(fetched.result, "Failed to fetch network information")>>]

InitConsensus == InitClient

\* One invocation of check_network_consensus, on each input and upstream.
CheckNetworkConsensus ==
  /\ result = NoResult
  /\ \E u \in {Ok200, Failed503} : \E nodes \in ConsensusNodeLists :
       CheckNetworkConsensusOn(u, nodes)
  /\ UNCHANGED <<now, lastCall, node, health>>
  /\ UNCHANGED toolVars

NextConsensus == CheckNetworkConsensus

SpecConsensus == InitConsensus /\ [][NextConsensus]_vars

\* The positions of the nodes given that validate and are active, and of
\* those among them that are overloaded.
Considered == {i \in 1..Len(given.nodes) : given.nodes[i].validating /\ given.nodes[i].active}
ConsideredOverloaded == {i \in Considered : given.nodes[i].overLoaded}

\* The issue is among those reported.
Reported(text) == \E i \in 1..Len(result.issues) : result.issues[i].issue = text

\* C21: only validating and active nodes count; one issue is raised for
\* fewer than 3 of them, one when any of them is overloaded, one when the
\* quorum-intersection heuristic fails; healthy iff there is no issue; the
\* safety level is max(0, min(10 * validators, 100) - 15 * issues), from 0
\* to 100.
C21_ConsensusIssuesAndSafety ==
  result.op = "check_network_consensus" =>
    /\ Reported("Insufficient number of active validators for safe consensus")
         <=> Cardinality(Considered) < 3
    /\ Reported("% validators are overloaded") <=> ConsideredOverloaded # {}
    /\ Reported("Potential quorum intersection issues detected") <=> ~result.quorumIntersection
    /\ Len(result.issues) =
         (IF Cardinality(Considered) < 3 THEN 1 ELSE 0)
           + (IF ConsideredOverloaded # {} THEN 1 ELSE 0)
           + (IF ~result.quorumIntersection THEN 1 ELSE 0)
    /\ result.healthy <=> Len(result.issues) = 0
    /\ \E base \in {IF 10 * Cardinality(Considered) < 100
                      THEN 10 * Cardinality(Considered) ELSE 100} :
         result.safetyLevel = IF base - 15 * Len(result.issues) > 0
                                THEN base - 15 * Len(result.issues) ELSE 0
    /\ result.safetyLevel \in 0..100

\* More than 10 validators, one issue: the base is capped at 100.
C21_Witness ==
  /\ result.op = "check_network_consensus"
  /\ Cardinality(Considered) > 10
  /\ Len(result.issues) = 1
  /\ result.safetyLevel = 85

\* The organizations of the considered validators, those without one
\* taken together, and the number of considered validators of each.
ConsideredOrganizations == {given.nodes[i].organizationId : i \in Considered}
ConsideredOf(o) == Cardinality({i \in Considered : given.nodes[i].organizationId = o})

\* C22: with fewer than 4 validators the heuristic holds iff there are
\* exactly 3; with 4 or more it holds iff every organization has fewer
\* than half of them and there are at least 3 organizations, the
\* validators without an organization counting as one.
C22_QuorumIntersectionHeuristic ==
  result.op = "check_network_consensus" =>
    /\ Cardinality(Considered) < 4 =>
         (result.quorumIntersection <=> Cardinality(Considered) = 3)
    /\ Cardinality(Considered) >= 4 =>
         (result.quorumIntersection <=>
            /\ \A o \in ConsideredOrganizations : 2 * ConsideredOf(o) < Cardinality(Considered)
            /\ Cardinality(ConsideredOrganizations) >= 3)
    /\ (Cardinality(Considered) = 4 /\ Cardinality(ConsideredOrganizations) = 1) =>
         ~result.quorumIntersection
    /\ (Cardinality(Considered) = 4 /\ Cardinality(ConsideredOrganizations) = 4) =>
         result.quorumIntersection

\* 4 validators in 4 organizations, one of them the validators without.
C22_Witness ==
  /\ result.op = "check_network_consensus"
  /\ Cardinality(Considered) = 4
  /\ Cardinality(ConsideredOrganizations) = 4
  /\ result.quorumIntersection
  /\ result.healthy

\* C29: with fewer than 3 validating and active nodes the answer is not
\* healthy, the quorum intersection is false, there are at least two
\* issues and the safety level is 0.
C29_TooFewValidators ==
  (result.op = "check_network_consensus" /\ Cardinality(Considered) < 3) =>
    /\ ~result.healthy
    /\ ~result.quorumIntersection
    /\ Len(result.issues) >= 2
    /\ result.safetyLevel = 0

\* Two validators among three nodes, one of them overloaded: three issues.
C29_Witness ==
  /\ result.op = "check_network_consensus"
  /\ Len(given.nodes) = 3
  /\ Cardinality(Considered) = 2
  /\ Len(result.issues) = 3
  /\ result.safetyLevel = 0

(***************************************************************************)
(* SpecOrgHealth: WorkflowTools.handleAnalyzeOrganizationHealth, with the  *)
(* values its steps return.  A number that can be NaN is a record          *)
(* [nan, value].                                                           *)
(***************************************************************************)
\* object.field, undefined when the object has no such field
Field(object, field) == IF field \in DOMAIN object THEN object[field] ELSE Undefined

\* handleGetOrganizationNodes with activeOnly false, once the nodes are
\* fetched: the nodes of the organization and their summary.
getOrganizationNodes(organizationId, allNodes) ==
  LET orgNodes == OrgNodesOf(allNodes, organizationId)
  IN [nodes |-> orgNodes,
      summary |-> [total |-> Len(orgNodes),
                   active |-> Len(SelectSeq(orgNodes, IsActive)),
                   validators |-> Len(SelectSeq(orgNodes, HasValidated)),
                   overloaded |-> Len(SelectSeq(orgNodes, IsOverLoaded))]]

\* calculateOrganizationHealthScore: reliability.overallScore * 0.6 when
\* that field is truthy, plus activeRatio * 40, rounded; 0 / 0 is NaN.
calculateOrganizationHealthScore(reliability, nodes) ==
  LET overallScore == Field(reliability, "overallScore")
      score10 == IF overallScore # Undefined /\ overallScore # 0 THEN overallScore * 6 ELSE 0
  IN IF nodes.summary.total = 0
       THEN [nan |-> TRUE, value |-> 0]
       ELSE [nan |-> FALSE,
             value |-> RoundDiv(score10 * nodes.summary.total + 400 * nodes.summary.active,
                                10 * nodes.summary.total)]

\* generateOrganizationRecommendations: undefined < 80 is false.
generateOrganizationRecommendations(reliability, nodes) ==
  LET overallScore == Field(reliability, "overallScore")
      inactiveNodes == Len(nodes.nodes) - Len(SelectSeq(nodes.nodes, IsActive))
  IN (IF overallScore # Undefined /\ overallScore < 80
        THEN <<[text |-> "Organization reliability is below recommended threshold (80%).",
                value |-> 0]>>
        ELSE <<>>)
     \o (IF inactiveNodes > 0
           THEN <<[text |-> "% nodes are inactive. Investigate connectivity issues.",
                   value |-> inactiveNodes]>>
           ELSE <<>>)

\* The analysis returned when every step has succeeded.
analyzeOrganizationHealth(organizationId, allNodes, includeHistorical) ==
  LET reliability == analyzeOrganizationReliability(organizationId, allNodes)
      orgNodes == getOrganizationNodes(organizationId, allNodes)
  IN [op |-> "analyze_organization_health",
      includeHistorical |-> includeHistorical,
      reliability |-> reliability,
      nodes |-> [summary |-> orgNodes.summary, details |-> orgNodes.nodes],
      healthScore |-> calculateOrganizationHealthScore(reliability, orgNodes),
      recommendations |-> generateOrganizationRecommendations(reliability, orgNodes)]

\* The step whose client call failed, given which of the calls succeeded:
\* the details (call 1), the reliability (calls 2 and 3, issued together),
\* the nodes (call 4), the snapshots (call 5).
FailedStep(ok) ==
  IF ~ok[1] THEN "Failed to get organization details: "
  ELSE IF Len(ok) >= 3 /\ (~ok[2] \/ ~ok[3]) THEN "Failed to analyze organization reliability: "
  ELSE IF Len(ok) >= 4 /\ ~ok[4] THEN "Failed to get organization nodes: "
  ELSE IF Len(ok) >= 5 /\ ~ok[5] THEN "Failed to get organization snapshots: "
  ELSE ""

\* The client calls made: those of the steps up to the first that fails.
CallsMade(u, includeHistorical, cnt, last, t) ==
  LET upTo(k) == makeRequests([i \in 1..k |-> u], cnt, last, t)
  IN IF ~upTo(1).ok[1] THEN upTo(1)
     ELSE IF ~upTo(3).ok[2] \/ ~upTo(3).ok[3] THEN upTo(3)
     ELSE IF ~upTo(4).ok[4] \/ ~includeHistorical THEN upTo(4)
     ELSE upTo(5)

\* handleAnalyzeOrganizationHealth against an upstream that answers every
\* request with u and holds the nodes allNodes.
AnalyzeOrganizationHealthOn(u, organizationId, allNodes, includeHistorical) ==
  \E calls \in {CallsMade(u, includeHistorical, requestCount, lastResetTime, now)} :
  \E failed \in {FailedStep(calls.ok)} :
    /\ requestCount' = calls.count
    /\ lastResetTime' = calls.last
    /\ sentAt' = [sentAt EXCEPT ![TickOf(now)] = @ + calls.sent]
    /\ given' = [op |-> "analyze_organization_health",
                 organizationId |-> organizationId,
                 nodes |-> IF failed = "" THEN allNodes ELSE <<>>]
    /\ result' = IF failed = ""
                   THEN analyzeOrganizationHealth(organizationId, allNodes, includeHistorical)
                   ELSE [op |-> "thrown",
                         message |-> <<"Failed to analyze organization health: ", failed>>]

\* The client is new, or has counted all but Headroom requests of its
\* window.
InitOrgHealth ==
  /\ now = 0
  /\ lastResetTime = 0
  /\ requestCount \in {0, maxRequestsPerMinute - Headroom}
  /\ sentAt = [k \in Ticks |-> IF k = 0 THEN requestCount ELSE 0]
  /\ lastCall = [method |-> "none"]
  /\ InitToolVars

\* One invocation of analyze_organization_health, on each input and
\* upstream.
AnalyzeOrganizationHealth ==
  /\ result = NoResult
  /\ \E u \in {Ok200, Failed503} : \E organizationId \in OrganizationIds :
       \E allNodes \in OrgNodeLists : \E includeHistorical \in BOOLEAN :
         AnalyzeOrganizationHealthOn(u, organizationId, allNodes, includeHistorical)
  /\ UNCHANGED <<now, lastCall, node, health>>
  /\ UNCHANGED toolVars

NextOrgHealth == AnalyzeOrganizationHealth

SpecOrgHealth == InitOrgHealth /\ [][NextOrgHealth]_vars

\* C28 (as stated): the health score is
\* round(0.6 * reliability score + 40 * active / total), with the score of
\* the reliability analysis of the same organization; it is a number from
\* 0 to 100 for every organization; the recommendation about the
\* threshold of 80% is present iff that reliability score is below 80.
C28_HealthScoreOfReliability ==
  result.op = "analyze_organization_health" =>
    /\ ~result.healthScore.nan
    /\ result.healthScore.value \in 0..100
    /\ result.nodes.summary.total > 0 =>
         result.healthScore.value =
           (2 * (6 * result.reliability.reliability.score * result.nodes.summary.total
                 + 400 * result.nodes.summary.active)
              + 10 * result.nodes.summary.total)
             \div (20 * result.nodes.summary.total)
    /\ (\E i \in 1..Len(result.recommendations) :
          result.recommendations[i].text
            = "Organization reliability is below recommended threshold (80%).")
         <=> result.reliability.reliability.score < 80

(***************************************************************************)
(* SpecDiversity: the diversity metrics of NodeTools and the               *)
(* decentralization score of WorkflowTools.  Groups (Record<string,        *)
(* number>) are functions from keys to counts.  The organizational         *)
(* diversity, a number rounded to two decimals, is given in hundredths.    *)
(***************************************************************************)
MaxDiversityNodes == 11
MaxGroups == 4
MaxGroupSize == 4

\* Math.log2(k) for k in 1..32, in millionths.
Log2Millionths ==
  << 0, 1000000, 1584963, 2000000, 2321928, 2584963, 2807355, 3000000,
     3169925, 3321928, 3459432, 3584963, 3700440, 3807355, 3906891, 4000000,
     4087463, 4169925, 4247928, 4321928, 4392317, 4459432, 4523562, 4584963,
     4643856, 4700440, 4754888, 4807355, 4857981, 4906891, 4954196, 5000000 >>

\* The sum of the counts, and of count * log2(count), over the keys of
\* groups.
RECURSIVE SumCounts(_, _)
SumCounts(groups, keys) ==
  IF keys = {} THEN 0
  ELSE LET k == CHOOSE x \in keys : TRUE
       IN groups[k] + SumCounts(groups, keys \ {k})

RECURSIVE SumCountLogs(_, _)
SumCountLogs(groups, keys) ==
  IF keys = {} THEN 0
  ELSE LET k == CHOOSE x \in keys : TRUE
       IN groups[k] * Log2Millionths[groups[k]] + SumCountLogs(groups, keys \ {k})

\* The share of the largest group, in hundredths.
calculateOrganizationalDiversity_largestShare(orgGroups) ==
  LET total == SumCounts(orgGroups, DOMAIN orgGroups)
      largest == CHOOSE c \in {orgGroups[k] : k \in DOMAIN orgGroups} :
                   \A k \in DOMAIN orgGroups : orgGroups[k] <= c
  IN IF total = 0 THEN 0 ELSE RoundDiv(100 * largest, total)

\* calculateOrganizationalDiversity: the entropy -sum p * log2(p) with
\* p = count / total, which is log2(total) - sum(count * log2(count)) / total,
\* rounded to two decimals.  Without groups the reduce returns its initial
\* value 0.
calculateOrganizationalDiversity(orgGroups) ==
  LET total == SumCounts(orgGroups, DOMAIN orgGroups)
  IN IF total = 0 THEN 0
     ELSE RoundDiv(total * Log2Millionths[total] - SumCountLogs(orgGroups, DOMAIN orgGroups),
                   total * 10000)

\* The counts of the nodes by keyOf[i], the key of node i; a node with the
\* key "none" is left out.
GroupBy(nodes, keyOf) ==
  [k \in {keyOf[i] : i \in 1..Len(nodes)} \ {"none"} |->
     Cardinality({i \in 1..Len(nodes) : keyOf[i] = k})]

\* validator.organizationId || 'Unknown'
groupValidatorsByOrganization(nodes) ==
  GroupBy(nodes, [i \in 1..Len(nodes) |->
                    IF nodes[i].organizationId = "undefined" THEN "Unknown"
                    ELSE nodes[i].organizationId])

\* node.stellarCoreVersion || 'Unknown'
groupNodesByVersion(nodes) ==
  GroupBy(nodes, [i \in 1..Len(nodes) |->
                    IF nodes[i].stellarCoreVersion = "" THEN "Unknown"
                    ELSE nodes[i].stellarCoreVersion])

\* byCountry of groupNodesByLocation: only nodes with a country name
groupNodesByLocation(nodes) ==
  GroupBy(nodes, [i \in 1..Len(nodes) |->
                    IF nodes[i].countryName = "" THEN "none" ELSE nodes[i].countryName])

analyzeNetworkConnectivity(nodes) ==
  LET organizationGroups == groupValidatorsByOrganization(nodes)
      versionGroups == groupNodesByVersion(nodes)
      byCountry == groupNodesByLocation(nodes)
  IN [networkwide |-> [totalNodes |-> Len(nodes),
                       organizations |-> Cardinality(DOMAIN organizationGroups),
                       versions |-> Cardinality(DOMAIN versionGroups),
                       countries |-> Cardinality(DOMAIN byCountry)],
      redundancy |-> [organizationalDiversity |->
                        calculateOrganizationalDiversity(organizationGroups),
                      geographicDiversity |-> Cardinality(DOMAIN byCountry),
                      versionDiversity |-> Cardinality(DOMAIN versionGroups)]]

\* calculateDecentralizationScore; organizationalDiversity is in
\* hundredths.
calculateDecentralizationScore(diversity) ==
  MathMax(0, 100
             - (IF diversity.redundancy.organizationalDiversity < 300 THEN 30 ELSE 0)
             - (IF diversity.redundancy.geographicDiversity < 10 THEN 20 ELSE 0)
             - (IF diversity.redundancy.versionDiversity < 3 THEN 15 ELSE 0))

\* The analysis of handleAnalyzeNetworkDiversity once its three steps have
\* returned: the nodes of handleFindPeerConnections (the active ones
\* unless includeInactive), their connectivity analysis and the score.
analyzeNetworkDiversity(allNodes, includeInactive) ==
  LET nodes == IF includeInactive THEN allNodes ELSE SelectSeq(allNodes, IsActive)
      diversity == analyzeNetworkConnectivity(nodes)
  IN [op |-> "analyze_network_diversity",
      diversity |-> diversity,
      decentralization |-> [score |-> calculateDecentralizationScore(diversity)]]

\* The step of handleAnalyzeNetworkDiversity that throws, given which of
\* its client calls succeeded.
FailedDiversityStep(ok) ==
  IF ~ok[1] THEN "Failed to get all nodes: "
  ELSE IF ~ok[2] THEN "Failed to find peer connections: "
  ELSE IF ~ok[3] THEN "Failed to search nodes: "
  ELSE ""

\* The client calls made: one by each of handleGetAllNodes,
\* handleFindPeerConnections and handleSearchNodes, up to the first that
\* fails.
DiversityCalls(u, cnt, last, t) ==
  LET upTo(k) == makeRequests([i \in 1..k |-> u], cnt, last, t)
  IN IF ~upTo(1).ok[1] THEN upTo(1)
     ELSE IF ~upTo(2).ok[2] THEN upTo(2)
     ELSE upTo(3)

\* handleAnalyzeNetworkDiversity against an upstream that answers every
\* request with u and holds the nodes allNodes.
AnalyzeNetworkDiversityOn(u, allNodes, includeInactive) ==
  \E calls \in {DiversityCalls(u, requestCount, lastResetTime, now)} :
  \E failed \in {FailedDiversityStep(calls.ok)} :
    /\ requestCount' = calls.count
    /\ lastResetTime' = calls.last
    /\ sentAt' = [sentAt EXCEPT ![TickOf(now)] = @ + calls.sent]
    /\ given' = [op |-> "analyze_network_diversity",
                 nodes |-> IF failed = "" THEN allNodes ELSE <<>>,
                 includeInactive |-> includeInactive]
    /\ result' = IF failed = ""
                   THEN analyzeNetworkDiversity(allNodes, includeInactive)
                   ELSE [op |-> "thrown",
                         message |-> <<"Failed to analyze network diversity: ", failed>>]

\* The n nodes of a network with the given numbers of organizations,
\* countries and versions (the first of each stands for a node without),
\* of which every fourth is inactive or none.
DiversityNodes(n, orgs, countries, versions, allActive) ==
  [i \in 1..n |->
     [active |-> allActive \/ i % 4 # 0,
      organizationId |->
        <<"undefined", "orgA", "orgB", "orgC", "orgD", "orgE", "orgF", "orgG",
          "orgH">>[(i % orgs) + 1],
      countryName |->
        <<"", "AT", "BE", "CA", "DE", "ES", "FR", "GB", "HU", "IT", "JP">>[(i % countries) + 1],
      stellarCoreVersion |-> <<"", "20.0.0", "21.0.0", "22.0.0">>[(i % versions) + 1]]]

DiversityNodeLists ==
  { DiversityNodes(n, o, c, v, a) :
      n \in 0..MaxDiversityNodes, o \in 1..9, c \in 1..11, v \in 1..4, a \in BOOLEAN }

InitDiversity == InitOrgHealth

\* One invocation of analyze_network_diversity, on each input and
\* upstream.
AnalyzeNetworkDiversity ==
  /\ result = NoResult
  /\ \E u \in {Ok200, Failed503} : \E allNodes \in DiversityNodeLists :
       \E includeInactive \in BOOLEAN :
         AnalyzeNetworkDiversityOn(u, allNodes, includeInactive)
  /\ UNCHANGED <<now, lastCall, node, health>>
  /\ UNCHANGED toolVars

NextDiversity == AnalyzeNetworkDiversity

SpecDiversity == InitDiversity /\ [][NextDiversity]_vars

\* SpecEntropy: calculateOrganizationalDiversity on every record of up to
\* MaxGroups groups of up to MaxGroupSize validators, the groups being
\* numbered.
GroupInputs ==
  { [op |-> "calculateOrganizationalDiversity", orgGroups |-> g] :
      g \in UNION {[1..k -> 1..MaxGroupSize] : k \in 0..MaxGroups} }

InitEntropy == InitGiven(GroupInputs)

CalculateOrganizationalDiversity ==
  Apply("calculateOrganizationalDiversity",
        calculateOrganizationalDiversity(given.orgGroups))

NextEntropy == CalculateOrganizationalDiversity

SpecEntropy == InitEntropy /\ [][NextEntropy]_vars

\* The nodes that the analysis is about, by position, and the
\* organizations, countries and versions among them.
Analysed ==
  {i \in 1..Len(given.nodes) : given.includeInactive \/ given.nodes[i].active}
AnalysedOrganizations == {given.nodes[i].organizationId : i \in Analysed}
AnalysedCountries == {given.nodes[i].countryName : i \in Analysed} \ {""}
AnalysedVersions == {given.nodes[i].stellarCoreVersion : i \in Analysed}

\* C24 (as stated): the decentralization score is 100 minus 30 for fewer
\* than 3 organizations, minus 20 for fewer than 10 countries, minus 15
\* for fewer than 3 versions; a network with 3 or more organizations does
\* not receive the first penalty.
C24_DecentralizationScore ==
  result.op = "analyze_network_diversity" =>
    result.decentralization.score =
      100 - (IF Cardinality(AnalysedOrganizations) < 3 THEN 30 ELSE 0)
          - (IF Cardinality(AnalysedCountries) < 10 THEN 20 ELSE 0)
          - (IF Cardinality(AnalysedVersions) < 3 THEN 15 ELSE 0)

\* Three organizations and more, ten countries, three versions: the score
\* returned is 70.
C24_ThreeOrganizationsPenalised ==
  /\ result.op = "analyze_network_diversity"
  /\ Cardinality(AnalysedOrganizations \ {"undefined"}) >= 3
  /\ Cardinality(AnalysedCountries) >= 10
  /\ Cardinality(AnalysedVersions) >= 3
  /\ result.decentralization.score = 70

\* The groups with one validator moved from group i to group j.
Moved(groups, i, j) == [groups EXCEPT ![i] = @ - 1, ![j] = @ + 1]

\* C25: the organizational diversity is 0 when all validators are in one
\* organization, and moving one validator from a larger organization to
\* a smaller one, the organizations staying the same, does not lower it.
C25_EntropyOfGroups ==
  result.op = "calculateOrganizationalDiversity" =>
    /\ Len(given.orgGroups) = 1 => result.value = 0
    /\ \A i \in 1..Len(given.orgGroups) : \A j \in 1..Len(given.orgGroups) :
         given.orgGroups[i] > given.orgGroups[j] =>
           calculateOrganizationalDiversity(Moved(given.orgGroups, i, j)) >= result.value

\* Counts 4, 1, 1, which become 3, 2, 1: the diversity rises.
C25_Witness ==
  /\ result.op = "calculateOrganizationalDiversity"
  /\ given.orgGroups = <<4, 1, 1>>
  /\ result.value > 0
  /\ calculateOrganizationalDiversity(Moved(given.orgGroups, 1, 2)) > result.value

(***************************************************************************)
(* SpecConcurrent: several tool invocations in progress at once on the one *)
(* client of the process.  Here phase, name and responses are given per    *)
(* invocation, and responses[i] holds the client calls of invocation i:    *)
(* created (the call was made, the request interceptor has not run yet),   *)
(* sent at some time, or resolved.  Handlers run to completion between     *)
(* their awaits, so that one run of the request interceptor, checkRateLimit*)
(* included, is one step; the steps of different calls come in any order.  *)
(***************************************************************************)
MaxInvocations == 2

Invocations == 1..MaxInvocations

\* The client calls that a handler makes at once: those of its
\* Promise.all, or its single call.
FanOut(tool) ==
  IF tool = "analyze_network_trends" THEN 3
  ELSE IF tool = "analyze_organization_reliability" THEN 2
  ELSE 1

ConcurrentTools ==
  {"analyze_network_trends", "analyze_organization_reliability", "check_network_consensus"}

NotSent == -1

Created == [st |-> "created", at |-> NotSent]

InitConcurrent ==
  /\ now = 0
  /\ lastResetTime = 0
  /\ requestCount = maxRequestsPerMinute - Headroom
  /\ sentAt = [k \in Ticks |-> IF k = 0 THEN requestCount ELSE 0]
  /\ lastCall = [method |-> "none"]
  /\ phase = [i \in Invocations |-> "idle"]
  /\ entry = "none"
  /\ name = [i \in Invocations |-> "none"]
  /\ args = NoArgs
  /\ responses = [i \in Invocations |-> <<>>]
  /\ outcome = NoOutcome
  /\ envelope = NoEnvelope
  /\ dataset = NoDataset
  /\ first = NoFirst
  /\ node = NoNode
  /\ health = NoHealth
  /\ given = NoGiven
  /\ result = NoResult

\* A tool is invoked: its handler runs up to its await, having made its
\* client calls.
Invoke(i, tool) ==
  /\ phase[i] = "idle"
  /\ phase' = [phase EXCEPT ![i] = "running"]
  /\ name' = [name EXCEPT ![i] = tool]
  /\ responses' = [responses EXCEPT ![i] = [k \in 1..FanOut(tool) |-> Created]]
  /\ UNCHANGED clientVars
  /\ UNCHANGED <<entry, args, outcome, envelope, dataset, first>>
  /\ UNCHANGED scoringVars

\* The request interceptor runs for call k of invocation i: checkRateLimit
\* counts the request, which is sent, or throws, and makeRequest resolves
\* without success.
Intercept(i, k) ==
  /\ phase[i] = "running"
  /\ k \in 1..Len(responses[i])
  /\ responses[i][k].st = "created"
  /\ \E checked \in {checkRateLimit(requestCount, lastResetTime, now)} :
       /\ requestCount' = checked.count
       /\ lastResetTime' = checked.last
       /\ sentAt' = IF checked.thrown = NoError
                      THEN [sentAt EXCEPT ![TickOf(now)] = @ + 1] ELSE sentAt
       /\ responses' = [responses EXCEPT ![i][k] =
                          IF checked.thrown = NoError
                            THEN [st |-> "sent", at |-> now]
                            ELSE [st |-> "resolved", at |-> NotSent]]
  /\ UNCHANGED <<now, lastCall>>
  /\ UNCHANGED <<phase, entry, name, args, outcome, envelope, dataset, first>>
  /\ UNCHANGED scoringVars

\* The upstream answers call k of invocation i, with success or not, or
\* the call times out, and makeRequest resolves.
Respond(i, k) ==
  /\ phase[i] = "running"
  /\ k \in 1..Len(responses[i])
  /\ responses[i][k].st = "sent"
  /\ responses' = [responses EXCEPT ![i][k] = [st |-> "resolved", at |-> @.at]]
  /\ UNCHANGED clientVars
  /\ UNCHANGED <<phase, entry, name, args, outcome, envelope, dataset, first>>
  /\ UNCHANGED scoringVars

\* All calls of invocation i have resolved: its handler goes on and
\* returns or throws.
Settle(i) ==
  /\ phase[i] = "running"
  /\ \A k \in 1..Len(responses[i]) : responses[i][k].st = "resolved"
  /\ phase' = [phase EXCEPT ![i] = "done"]
  /\ UNCHANGED clientVars
  /\ UNCHANGED <<entry, name, args, responses, outcome, envelope, dataset, first>>
  /\ UNCHANGED scoringVars

NextConcurrent ==
  \/ Tick
  \/ \E i \in Invocations : \E tool \in ConcurrentTools : Invoke(i, tool)
  \/ \E i \in Invocations : \E k \in 1..3 : Intercept(i, k)
  \/ \E i \in Invocations : \E k \in 1..3 : Respond(i, k)
  \/ \E i \in Invocations : Settle(i)

SpecConcurrent == InitConcurrent /\ [][NextConcurrent]_vars

\* The calls that were admitted at or after the last reset, and with them,
\* before the first reset, the requests counted when the invocations began.
AdmittedSinceReset ==
  Cardinality({ik \in Invocations \X (1..3) :
                 /\ ik[2] <= Len(responses[ik[1]])
                 /\ responses[ik[1]][ik[2]].at # NotSent
                 /\ responses[ik[1]][ik[2]].at >= lastResetTime})
    + (IF lastResetTime = 0 THEN maxRequestsPerMinute - Headroom ELSE 0)

\* C26: whatever the order of the steps of concurrent invocations and of
\* the calls of one Promise.all, the counter lies in 0..60 and is the
\* number of requests admitted since the last reset; a step moves the
\* counter up by one, or back (to 1: the reset and the count of the
\* arriving request) when the clock is more than 60 seconds past the last
\* reset, and the reset time changes in no other step.
C26_CounterUnderInterleaving ==
  /\ [](requestCount \in 0..maxRequestsPerMinute /\ requestCount = AdmittedSinceReset)
  /\ [][\/ requestCount' = requestCount /\ lastResetTime' = lastResetTime
        \/ requestCount' = requestCount + 1 /\ lastResetTime' = lastResetTime
        \/ /\ now - lastResetTime > WindowMs
           /\ requestCount' = 1
           /\ lastResetTime' = now]_vars

\* Two invocations in progress at once, one of them with the three calls
\* of a Promise.all of which one was refused at the limit and one is sent
\* after a reset.
C26_Witness ==
  /\ phase[1] = "running"
  /\ phase[2] = "running"
  /\ name[1] = "analyze_network_trends"
  /\ \E k \in 1..3 : responses[1][k].st = "resolved" /\ responses[1][k].at = NotSent
  /\ \E k \in 1..3 : responses[1][k].st = "sent" /\ responses[1][k].at = lastResetTime
  /\ lastResetTime > 0
  /\ \E k \in 1..Len(responses[2]) : responses[2][k].at # NotSent

(***************************************************************************)
(* SpecMonitor: WorkflowTools.handleMonitorValidatorPerformance on a       *)
(* client whose window is fresh, against networks of up to                 *)
(* MaxMonitorValidators validators.  The upstream answers at once: the     *)
(* clock does not move during the invocation.                              *)
(***************************************************************************)
MaxMonitorValidators == 60

\* The nodes of a network of n validators, with one more node that does
\* not validate or without; the public key of a node is its place.
MonitorNodes(n, watcher) ==
  [i \in 1..(n + (IF watcher THEN 1 ELSE 0)) |->
     [publicKey |-> i, validating |-> i <= n, active |-> i % 5 # 0,
      overLoaded |-> i % 7 = 0, uptime |-> IF i % 3 = 0 THEN 50 ELSE 100]]

MonitorNodeLists ==
  { MonitorNodes(n, watcher) : n \in 0..MaxMonitorValidators, watcher \in BOOLEAN }

\* The snapshot history that the upstream holds for every validator,
\* newest first: none, or a validator that was down and is up again.
MonitorHistories ==
  { <<>>,
    << [active |-> TRUE, uptime |-> 100, dateCreated |-> 3],
       [active |-> FALSE, uptime |-> Undefined, dateCreated |-> 1] >> }

MonitorArgs == [sortBy : SortBys, limit : {Undefined, 1}, includeFailures : BOOLEAN]

\* handleGetValidatorNodes with activeOnly false, once the nodes are
\* fetched: its summary.
getValidatorNodes(nodes) ==
  LET validators == SelectSeq(nodes, IsValidating)
  IN [validators |-> validators,
      summary |-> [total |-> Len(validators),
                   active |-> Len(SelectSeq(validators, IsActive)),
                   overloaded |-> Len(SelectSeq(validators, IsOverLoaded))]]

\* generateValidatorRecommendations; the average score is the fraction
\* sum / count, and 0 / 0 < 70 is false.
generateValidatorRecommendations(validators, rankings, failing) ==
  (IF 10 * validators.summary.active < 8 * validators.summary.total
     THEN <<[text |-> "Less than 80% of validators are active. Investigate inactive validators.",
             value |-> 0]>>
     ELSE <<>>)
  \o (IF Len(failing) > 0
        THEN <<[text |-> "% validators are failing. Check their health status.",
                value |-> Len(failing)]>>
        ELSE <<>>)
  \o (IF /\ rankings.statistics.averageScore.count > 0
         /\ rankings.statistics.averageScore.sum < 70 * rankings.statistics.averageScore.count
        THEN <<[text |-> "Average validator performance is below optimal. Consider performance improvements.",
                value |-> 0]>>
        ELSE <<>>)

\* The analysis returned when no step has thrown; snapshotsOf[i] is what
\* handleRankValidators got for the i-th validator.
monitorValidatorPerformance(nodes, snapshotsOf, a) ==
  LET validators == getValidatorNodes(nodes)
      rankings == rankValidators(nodes, snapshotsOf,
                                 [sortBy |-> IF a.sortBy = "undefined" THEN "reliability"
                                             ELSE a.sortBy,
                                  limit |-> IF a.limit = Undefined \/ a.limit = 0 THEN 20
                                            ELSE a.limit,
                                  activeOnly |-> "false"])
      failingValidators ==
        IF a.includeFailures
          THEN SelectSeq(findFailingNodes(nodes, "all").failingNodes,
                         LAMBDA e : e.node.validating)
          ELSE <<>>
  IN [op |-> "monitor_validator_performance",
      overview |-> [totalValidators |-> validators.summary.total,
                    activeValidators |-> validators.summary.active,
                    overloadedValidators |-> validators.summary.overloaded],
      topPerformers |-> SubSeq(rankings.validators, 1, MathMin(10, Len(rankings.validators))),
      rankings |-> rankings.validators,
      failingValidators |-> SubSeq(failingValidators, 1, MathMin(5, Len(failingValidators))),
      recommendations |->
        generateValidatorRecommendations(validators, rankings, failingValidators)]

\* The client calls made, n being the number of validators: one by
\* handleGetValidatorNodes, 1 + n by handleRankValidators, one by
\* handleFindFailingNodes if it is run; up to the first step that throws.
MonitorCalls(u, n, includeFailures, cnt, last, t) ==
  LET upTo(k) == makeRequests([i \in 1..k |-> u], cnt, last, t)
  IN IF ~upTo(1).ok[1] THEN upTo(1)
     ELSE IF ~upTo(2).ok[2] THEN upTo(2)
     ELSE IF includeFailures THEN upTo(n + 3)
     ELSE upTo(n + 2)

\* The step that throws, given which client calls succeeded; a snapshot
\* call that fails throws nothing.
FailedMonitorStep(ok, n, includeFailures) ==
  IF ~ok[1] THEN "Failed to get validator nodes: "
  ELSE IF ~ok[2] THEN "Failed to rank validators: "
  ELSE IF includeFailures /\ ~ok[n + 3] THEN "Failed to find failing nodes: "
  ELSE ""

\* handleMonitorValidatorPerformance against an upstream that answers
\* every request with u and holds the nodes and, for each validator, the
\* snapshot history.
MonitorValidatorPerformanceOn(u, nodes, history, a) ==
  \E n \in {Len(SelectSeq(nodes, IsValidating))} :
  \E calls \in {MonitorCalls(u, n, a.includeFailures, requestCount, lastResetTime, now)} :
  \E failed \in {FailedMonitorStep(calls.ok, n, a.includeFailures)} :
    /\ requestCount' = calls.count
    /\ lastResetTime' = calls.last
    /\ sentAt' = [sentAt EXCEPT ![TickOf(now)] = @ + calls.sent]
    /\ given' = [op |-> "monitor_validator_performance", args |-> a, upstream |-> u,
                 nodes |-> nodes, history |-> history]
    /\ result' = IF failed = ""
                   THEN monitorValidatorPerformance(
                          nodes,
                          [i \in 1..n |-> IF calls.ok[i + 2] THEN history ELSE <<>>],
                          a)
                   ELSE [op |-> "thrown",
                         message |-> <<"Failed to monitor validator performance: ", failed>>]

\* The client is new: its window is fresh and no request is counted.
InitMonitor == InitClientVars /\ InitToolVars

\* One invocation of monitor_validator_performance, on each input and
\* upstream.
MonitorValidatorPerformance ==
  /\ result = NoResult
  /\ \E u \in {Ok200, Failed503} : \E nodes \in MonitorNodeLists :
       \E history \in MonitorHistories : \E a \in MonitorArgs :
         MonitorValidatorPerformanceOn(u, nodes, history, a)
  /\ UNCHANGED <<now, lastCall, node, health>>
  /\ UNCHANGED toolVars

NextMonitor == MonitorValidatorPerformance

SpecMonitor == InitMonitor /\ [][NextMonitor]_vars

\* C27 (as stated): the upstream answering every request with success,
\* and the invocation being the only one, on a fresh window,
\* monitor_validator_performance returns its analysis and not an error,
\* for every number of validators, and the score of every validator in
\* the rankings is the score of that validator with the snapshot history
\* that the upstream holds for it.
C27_CompleteForEveryNumber ==
  (result # NoResult /\ given.upstream = Ok200) =>
    /\ result.op = "monitor_validator_performance"
    /\ \A i \in 1..Len(result.rankings) :
         result.rankings[i].score
           = ScoreOf(given.args.sortBy, given.nodes[result.rankings[i].publicKey],
                     given.history)

====
